---------------------------- MODULE Spec2Model ----------------------------
(***************************************************************************)
(* Sparse SSZ Merkle proof engine of the consolidation-incentives prover:  *)
(* zero hashes, sparse subtree roots, single-leaf branches, the state      *)
(* prover that wraps them, the gindex calculator and the branch verifier.  *)
(*                                                                         *)
(* Representation.                                                         *)
(*  - A 32-byte chunk is <<"c", bytes>> with bytes a 32-tuple of 0..255.   *)
(*  - SHA-256 over two chunks is modelled as a collision-free pairing:     *)
(*    the digest of (l, r) is the term <<"h", l, r>>.  The digest of a     *)
(*    subtree of 2^k all-zero leaves is kept in the closed form <<"z", k>> *)
(*    (k >= 1), so that trees of 2^40 slots stay finite; hash_pair keeps   *)
(*    this form canonical, hence equal digests are equal terms.  A digest  *)
(*    with a bit flipped is <<"t", digest>>, a value that is no digest.    *)
(*  - A u64 / usize is the set of the positions of its 1-bits (a subset of *)
(*    0..63): shifts, xor, or, wrapping add and leading_zeros are computed *)
(*    on the bits, so 2^40 and 2^53 are ordinary values.                   *)
(***************************************************************************)
EXTENDS Integers, Sequences, FiniteSets, TLC

VARIABLES
    leaf_chunks,   \* sparse engine: the populated leaves handed to the engine
    eng,           \* sparse engine: the last engine call and what it returned
    prover,        \* the StateProver, as StateProver::new returned it
    header,        \* the BeaconBlockHeader bundles are generated for
    call,          \* the last call of the prover and what it returned
    first,         \* the first call of the prover and what it returned
    verdict,       \* the verification made of the returned bundle
    calc,          \* the last call of the gindex calculator and what it returned
    client,        \* the last call of the beacon client and what it returned
    app_state,     \* the AppState shared by the scanner and the REST API
    scanner,       \* the Scanner: its last finalized epoch and its last poll
    health_response \* what the /health endpoint answered last

vars == <<leaf_chunks, eng, prover, header, call, first, verdict, calc, client, app_state, scanner, health_response>>

---------------------------------------------------------------------------
(* Bounds of the model *)

MaxLeaves == 3      \* populated leaves handed to the sparse engine
MaxDepth == 3       \* depths at which every index and the full tree are enumerated
MaxStart == 4       \* largest leaf offset handed to compute_subtree_root
MaxValidators == 2      \* validators of a state
MaxConsolidations == 2  \* pending consolidations of a state
MaxPath == 2            \* gindices handed to one call of concat_gindices
MaxFields == 5          \* fields of a container handed to prove_container_field

---------------------------------------------------------------------------
(* 64-bit words as sets of bit positions *)

WORD_BITS == 64

MaxOf(S) == CHOOSE m \in S : \A k \in S : k <= m

\* the word of a natural number below 2^30
FromNat(n) == {i \in 0..29 : (n \div (2^i)) % 2 = 1}

\* the natural number of a word below 2^30
RECURSIVE ToNat(_)
ToNat(w) == IF w = {} THEN 0 ELSE LET i == MaxOf(w) IN 2^i + ToNat(w \ {i})

\* w << d for d < 64: bits shifted past bit 63 are dropped
Shl(w, d) == {i + d : i \in {j \in w : j + d < WORD_BITS}}

\* w >> d
Shr(w, d) == {i - d : i \in {j \in w : j >= d}}

Xor(a, b) == (a \ b) \cup (b \ a)

Or(a, b) == a \cup b

\* a < b, unsigned
Lt(a, b) == a # b /\ MaxOf(Xor(a, b)) \in b

\* a + b, wrapping at 2^64 (carry propagation)
RECURSIVE AddW(_, _)
AddW(a, b) == IF b = {} THEN a ELSE AddW(Xor(a, b), Shl(a \cap b, 1))

\* a * b, wrapping at 2^64 (shift and add over the bits of b)
RECURSIVE MulW(_, _)
MulW(a, b) == IF b = {} THEN {}
              ELSE LET i == MaxOf(b) IN AddW(Shl(a, i), MulW(a, b \ {i}))

\* u64::leading_zeros
leading_zeros(w) == IF w = {} THEN WORD_BITS ELSE (WORD_BITS - 1) - MaxOf(w)

---------------------------------------------------------------------------
(* Chunks and hashing *)

CHUNK_BYTES == 32

\* [b; 32]
FillChunk(b) == <<"c", [i \in 1..CHUNK_BYTES |-> b]>>

\* [0u8; 32]
ZeroChunk == FillChunk(0)

IsZeroHash(h) == h = ZeroChunk \/ h[1] = "z"

ZeroLevel(h) == IF h = ZeroChunk THEN 0 ELSE h[2]

\* mutant: the digest does not depend on the right node
hash_pair_left(left, right) == <<"h", left, ZeroChunk>>

\* SHA-256 of two 32-byte nodes
hash_pair(left, right) ==
    IF left = right /\ IsZeroHash(left)
    THEN <<"z", ZeroLevel(left) + 1>>
    ELSE <<"h", left, right>>

\* mutant: a table for trees of depth 32
MAX_DEPTH_half == 2^5

\* Maximum supported tree depth
MAX_DEPTH == 64

\* the turns lo+1 .. hi of the loop of zero_hashes() applied to h: each turn
\* hashes the entry below with itself (the range is halved so that the
\* evaluation nests log2(hi - lo) deep)
RECURSIVE zero_hash_loop(_, _, _)
zero_hash_loop(h, lo, hi) ==
    IF lo >= hi THEN h
    ELSE IF hi = lo + 1 THEN hash_pair(h, h)
    ELSE LET mid == (lo + hi) \div 2
         IN CHOOSE top \in {zero_hash_loop(below, mid, hi) :
                               below \in {zero_hash_loop(h, lo, mid)}} : TRUE

\* ZERO_HASHES[i]: entry 0 is the zero leaf, entry i the hash of entry i-1
\* with itself
zero_hash_at(i) == zero_hash_loop(ZeroChunk, 0, i)

zero_hashes == [i \in 0..MAX_DEPTH |-> zero_hash_at(i)]

\* an index into the table; a Rust slice index past the end panics
ZhIndexOk(i) == i \in DOMAIN zero_hashes

---------------------------------------------------------------------------
(* Sparse subtree engine *)

\* mutant: every leaf reads as the zero leaf
get_leaf_zero(chunks, index) == ZeroChunk

\* Get a leaf value, returning zero hash if out of bounds
get_leaf(chunks, index) ==
    IF Lt(index, FromNat(Len(chunks)))
    THEN chunks[ToNat(index) + 1]
    ELSE ZeroChunk

\* mutant: a subtree that is only partly populated is taken for an empty one
RECURSIVE compute_subtree_root_partial(_, _, _, _)
compute_subtree_root_partial(chunks, start, depth, zh) ==
    IF depth = 0 THEN get_leaf(chunks, start)
    ELSE LET subtree_size == Shl({0}, depth)
         IN IF ~Lt(AddW(start, subtree_size), AddW(FromNat(Len(chunks)), {0}))
            THEN zh[depth]
            ELSE LET half == Shr(subtree_size, 1)
                     left == compute_subtree_root_partial(chunks, start, depth - 1, zh)
                     right == compute_subtree_root_partial(chunks, AddW(start, half), depth - 1, zh)
                 IN hash_pair(left, right)

\* Root of the subtree whose leftmost leaf slot is `start`, of depth `depth`
RECURSIVE compute_subtree_root(_, _, _, _)
compute_subtree_root(chunks, start, depth, zh) ==
    IF depth = 0 THEN get_leaf(chunks, start)
    ELSE LET subtree_size == Shl({0}, depth)
         IN IF ~Lt(start, FromNat(Len(chunks)))
            THEN zh[depth]
            ELSE LET half == Shr(subtree_size, 1)
                     left == compute_subtree_root(chunks, start, depth - 1, zh)
                     right == compute_subtree_root(chunks, AddW(start, half), depth - 1, zh)
                 IN hash_pair(left, right)

\* the indices at which compute_subtree_root(chunks, start, depth, zh) reads zh
RECURSIVE subtree_zh_reads(_, _, _)
subtree_zh_reads(chunks, start, depth) ==
    IF depth = 0 THEN {}
    ELSE IF ~Lt(start, FromNat(Len(chunks))) THEN {depth}
    ELSE subtree_zh_reads(chunks, start, depth - 1)
            \cup subtree_zh_reads(chunks, AddW(start, Shr(Shl({0}, depth), 1)), depth - 1)

\* how many calls of compute_subtree_root are nested at most below the call
\* compute_subtree_root(chunks, start, depth, zh)
RECURSIVE subtree_recursion(_, _, _)
subtree_recursion(chunks, start, depth) ==
    IF depth = 0 THEN 0
    ELSE IF ~Lt(start, FromNat(Len(chunks))) THEN 0
    ELSE LET left == subtree_recursion(chunks, start, depth - 1)
             right == subtree_recursion(chunks, AddW(start, Shr(Shl({0}, depth), 1)),
                                        depth - 1)
         IN 1 + IF left >= right THEN left ELSE right

\* mutant: the node itself is pushed instead of its sibling (pos, not pos ^ 1)
ProveSibling_self(chunks, index, level, zh) ==
    LET pos == Shr(index, level)
        subtree_size == Shl({0}, level)
        start == MulW(pos, subtree_size)
    IN compute_subtree_root(chunks, start, level, zh)

\* mutant: an empty sibling is taken from the table one level too low
ProveSibling_low(chunks, index, level, zh) ==
    LET pos == Shr(index, level)
        sibling_pos == Xor(pos, {0})
        subtree_size == Shl({0}, level)
        start == MulW(sibling_pos, subtree_size)
    IN IF level > 0 /\ ~Lt(start, FromNat(Len(chunks)))
       THEN zh[level - 1]
       ELSE compute_subtree_root(chunks, start, level, zh)

\* one turn of the `for level in 0..depth` loop: the sibling pushed at `level`,
\* where pos is what `pos /= 2` has made of index after `level` turns
ProveSibling(chunks, index, level, zh) ==
    LET pos == Shr(index, level)
        sibling_pos == Xor(pos, {0})
        subtree_size == Shl({0}, level)
        start == MulW(sibling_pos, subtree_size)
    IN compute_subtree_root(chunks, start, level, zh)

\* the proof after the loop: one sibling per level, leaf to root
ProveSiblings(chunks, index, depth, zh) ==
    [k \in 1..depth |-> ProveSibling(chunks, index, k - 1, zh)]

\* mutant: the hash order of the fold is reversed
ProveStep_swapped(current, sibling, index, level) ==
    LET bit == IF level \in index THEN 1 ELSE 0
    IN IF bit = 0 THEN hash_pair(sibling, current)
                  ELSE hash_pair(current, sibling)

\* one turn of the `for (level, sibling)` loop: bit `level` of index orders
\* the hash
ProveStep(current, sibling, index, level) ==
    LET bit == IF level \in index THEN 1 ELSE 0   \* (index >> level) & 1
    IN IF bit = 0 THEN hash_pair(current, sibling)
                  ELSE hash_pair(sibling, current)

\* the turns lo .. hi-1 of the loop applied to `current`, in order; the range
\* is halved so that the evaluation nests log2(hi - lo) deep, and the lower
\* half is a value before the upper half is entered
RECURSIVE ProveFold(_, _, _, _, _)
ProveFold(current, proof, index, lo, hi) ==
    IF lo >= hi THEN current
    ELSE IF hi = lo + 1 THEN ProveStep(current, proof[lo + 1], index, lo)
    ELSE LET mid == (lo + hi) \div 2
         IN CHOOSE root \in {ProveFold(below, proof, index, mid, hi) :
                                below \in {ProveFold(current, proof, index, lo, mid)}} : TRUE

\* where the sibling subtree of the turn `level` of the loop starts
sibling_start(index, level) == MulW(Xor(Shr(index, level), {0}), Shl({0}, level))

\* what a call prove_against_leaf_chunks(chunks, index, depth) that passes the
\* assert reads of zh, and how deep the recursion below it goes, over the
\* turns of its loop
prove_zh_reads(chunks, index, depth) ==
    UNION {subtree_zh_reads(chunks, sibling_start(index, level), level) :
              level \in 0..(depth - 1)}

prove_recursion(chunks, index, depth) ==
    IF depth = 0 THEN 0
    ELSE 1 + MaxOf({subtree_recursion(chunks, sibling_start(index, level), level) :
                       level \in 0..(depth - 1)})

\* prove_against_leaf_chunks(leaf_chunks, index, depth) -> (proof, root);
\* the assert on index aborts the call
prove_against_leaf_chunks(chunks, index, depth) ==
    LET zh == zero_hashes
        leaf_count == Shl({0}, depth)
    IN IF ~Lt(index, leaf_count)
       THEN [panic |-> TRUE, proof |-> <<>>, root |-> ZeroChunk]
       ELSE LET proof == ProveSiblings(chunks, index, depth, zh)
                root == ProveFold(get_leaf(chunks, index), proof, index, 0, Len(proof))
            IN [panic |-> FALSE, proof |-> proof, root |-> root]

---------------------------------------------------------------------------
(* Gindex depth and the branch verifier *)

\* mutant: the depth is counted one too high
gindex_depth_off(gindex) == WORD_BITS - leading_zeros(gindex)

\* GindexCalculator::gindex_depth: floor(log2(gindex))
gindex_depth(gindex) == (WORD_BITS - 1) - leading_zeros(gindex)

\* one step of the verifier: bit k-1 of the gindex orders the k-th hash
VerifyStep(h, sibling, gindex, k) ==
    IF (k - 1) \in gindex THEN hash_pair(sibling, h)
                           ELSE hash_pair(h, sibling)

\* the verifier's fold over branch[lo .. hi], leaf to root (range halved as in
\* ProveFold)
RECURSIVE VerifyFold(_, _, _, _, _)
VerifyFold(h, branch, gindex, lo, hi) ==
    IF lo > hi THEN h
    ELSE IF lo = hi THEN VerifyStep(h, branch[lo], gindex, lo)
    ELSE LET mid == (lo + hi) \div 2
         IN CHOOSE root \in {VerifyFold(below, branch, gindex, mid + 1, hi) :
                                below \in {VerifyFold(h, branch, gindex, lo, mid)}} : TRUE

\* mutant: the root is compared before the length is looked at
verify_root_first(leaf, branch, gindex, expected_root) ==
    IF VerifyFold(leaf, branch, gindex, 1, Len(branch)) # expected_root THEN "InvalidProof"
    ELSE IF gindex_depth(gindex) # Len(branch) THEN "InvalidProofLength"
    ELSE "Ok"

\* verify(leaf, branch, gindex, expected_root): the length is checked before
\* any hashing, the root after folding
verify(leaf, branch, gindex, expected_root) ==
    IF gindex_depth(gindex) # Len(branch) THEN "InvalidProofLength"
    ELSE IF VerifyFold(leaf, branch, gindex, 1, Len(branch)) # expected_root THEN "InvalidProof"
    ELSE "Ok"

---------------------------------------------------------------------------
(* Full-tree merkleization (ssz_rs hash_tree_root / prove) *)

\* the 2^depth slots [start, start + 2^depth) of the materialised tree
FullSlots(chunks, start, depth) ==
    [k \in 1..(2^depth) |-> IF start + k <= Len(chunks) THEN chunks[start + k]
                                                        ELSE ZeroChunk]

\* a full layer hashed pairwise down to its root
RECURSIVE FullReduce(_)
FullReduce(layer) ==
    IF Len(layer) = 1 THEN layer[1]
    ELSE FullReduce([j \in 1..(Len(layer) \div 2) |->
                        hash_pair(layer[2 * j - 1], layer[2 * j])])

FullTreeRoot(chunks, start, depth) == FullReduce(FullSlots(chunks, start, depth))

\* the branch of slot `index` in the materialised tree of depth `depth`:
\* at level k the root of the sibling subtree
FullTreeBranch(chunks, index, depth) ==
    [k \in 1..depth |->
        LET size == 2^(k - 1)
            pos == index \div size
            sibling_pos == IF pos % 2 = 0 THEN pos + 1 ELSE pos - 1
        IN FullTreeRoot(chunks, sibling_pos * size, k - 1)]

\* depth of a container of n fields: fields padded to the next power of two
RECURSIVE ContainerDepth(_)
ContainerDepth(n) == IF n <= 1 THEN 0 ELSE 1 + ContainerDepth((n + 1) \div 2)

---------------------------------------------------------------------------
(* SSZ leaves and containers *)

\* byte b (0 = least significant) of a 64-bit word
ByteOf(w, b) == ToNat({j \in 0..7 : (8 * b + j) \in w})

\* a u64 as a leaf: little-endian in bytes 0..8 of a zero-filled chunk
ssz_u64_to_bytes32(value) ==
    <<"c", [i \in 1..CHUNK_BYTES |-> IF i <= 8 THEN ByteOf(value, i - 1) ELSE 0]>>

\* mutant: the u64 is written big-endian
ssz_u64_to_bytes32_be(value) ==
    <<"c", [i \in 1..CHUNK_BYTES |-> IF i <= 8 THEN ByteOf(value, 8 - i) ELSE 0]>>

\* a bool as a leaf
ssz_bool_to_bytes32(b) ==
    <<"c", [i \in 1..CHUNK_BYTES |-> IF i = 1 /\ b THEN 1 ELSE 0]>>

\* mutant: the length chunk is hashed on the left of the data root
mix_in_length_left(data_root, length) ==
    hash_pair(ssz_u64_to_bytes32(FromNat(length)), data_root)

\* Mix in the length for a List's Merkle root
mix_in_length(data_root, length) ==
    hash_pair(data_root, ssz_u64_to_bytes32(FromNat(length)))

\* mutant: the length mixed in is the number of element hashes handed over
prove_list_element_count(element_hashes, element_index, list_limit_depth, list_length) ==
    LET data == prove_against_leaf_chunks(element_hashes, element_index, list_limit_depth)
        length_bytes == ssz_u64_to_bytes32(FromNat(Len(element_hashes)))
    IN IF data.panic THEN data
       ELSE [panic |-> FALSE,
             proof |-> Append(data.proof, length_bytes),
             root |-> hash_pair(data.root, length_bytes)]

\* Generate a Merkle proof for an element within a List<T, N>
prove_list_element(element_hashes, element_index, list_limit_depth, list_length) ==
    LET data == prove_against_leaf_chunks(element_hashes, element_index, list_limit_depth)
        length_bytes == ssz_u64_to_bytes32(FromNat(list_length))
    IN IF data.panic THEN data
       ELSE [panic |-> FALSE,
             proof |-> Append(data.proof, length_bytes),
             root |-> hash_pair(data.root, length_bytes)]

\* u64::next_power_of_two, of values that have one
next_power_of_two(w) ==
    IF w = {} THEN {0}
    ELSE IF Cardinality(w) = 1 THEN w
    ELSE {MaxOf(w) + 1}

\* u64::trailing_zeros
trailing_zeros(w) ==
    IF w = {} THEN WORD_BITS ELSE CHOOSE i \in w : \A j \in w : i <= j

\* mutant: the depth is that of the power of two below the number of fields
prove_container_field_floor(field_hashes, field_index, num_fields) ==
    LET depth == IF num_fields <= 1 THEN 0
                 ELSE MaxOf(FromNat(num_fields))
    IN prove_against_leaf_chunks(field_hashes, field_index, depth)

\* Generate a Merkle proof for a field within a container
prove_container_field(field_hashes, field_index, num_fields) ==
    LET depth == IF num_fields <= 1 THEN 0
                 ELSE trailing_zeros(next_power_of_two(FromNat(num_fields)))
    IN prove_against_leaf_chunks(field_hashes, field_index, depth)

\* root of Vector<u8, 48>: two chunks, the second zero-padded
PubkeyRoot(pubkey) ==
    hash_pair(<<"c", [i \in 1..CHUNK_BYTES |-> pubkey[i]]>>,
              <<"c", [i \in 1..CHUNK_BYTES |->
                        IF i <= 16 THEN pubkey[CHUNK_BYTES + i] ELSE 0]>>)

\* field roots of a Validator, in field order
ValidatorChunks(v) ==
    << PubkeyRoot(v.pubkey),
       <<"c", v.withdrawal_credentials>>,
       ssz_u64_to_bytes32(v.effective_balance),
       ssz_bool_to_bytes32(v.slashed),
       ssz_u64_to_bytes32(v.activation_eligibility_epoch),
       ssz_u64_to_bytes32(v.activation_epoch),
       ssz_u64_to_bytes32(v.exit_epoch),
       ssz_u64_to_bytes32(v.withdrawable_epoch) >>

\* field roots of a PendingConsolidation
ConsolidationChunks(c) ==
    << ssz_u64_to_bytes32(c.source_index), ssz_u64_to_bytes32(c.target_index) >>

\* field roots of a BeaconBlockHeader
HeaderChunks(h) ==
    << ssz_u64_to_bytes32(h.slot), ssz_u64_to_bytes32(h.proposer_index),
       h.parent_root, h.state_root, h.body_root >>

\* hash_tree_root of a container given its field roots
hash_tree_root(container) ==
    FullTreeRoot(container, 0, ContainerDepth(Len(container)))

\* mutant: the branch is returned root-to-leaf
prove_small_container_field_reversed(container, path) ==
    LET depth == ContainerDepth(Len(container))
        branch == FullTreeBranch(container, path, depth)
    IN [proof |-> [k \in 1..depth |-> branch[depth + 1 - k]],
        leaf |-> container[path + 1],
        root |-> hash_tree_root(container)]

\* prove_small_container_field(container, path) -> (branch, leaf, root), path
\* being the index of the named field
prove_small_container_field(container, path) ==
    LET depth == ContainerDepth(Len(container))
    IN [proof |-> FullTreeBranch(container, path, depth),
        leaf |-> container[path + 1],
        root |-> hash_tree_root(container)]

---------------------------------------------------------------------------
(* Generalized indices (GindexCalculator) *)

BEACON_STATE_BASE_GINDEX == 64
VALIDATORS_FIELD_INDEX == 11
PENDING_CONSOLIDATIONS_FIELD_INDEX == 36
HEADER_BASE_GINDEX == 8
STATE_ROOT_FIELD_INDEX == 3
VALIDATOR_BASE_GINDEX == 8
WITHDRAWAL_CREDENTIALS_FIELD_INDEX == 1
ACTIVATION_EPOCH_FIELD_INDEX == 5
CONSOLIDATION_BASE_GINDEX == 2
SOURCE_INDEX_FIELD_INDEX == 0

\* mutant: the path bits of the next gindex are not shifted in
ConcatStep_noshift(result, gindex) ==
    LET depth == (WORD_BITS - 1) - leading_zeros(gindex)
    IN Or(result, Xor(gindex, Shl({0}, depth)))

\* one turn of the loop of concat_gindices
ConcatStep(result, gindex) ==
    LET depth == (WORD_BITS - 1) - leading_zeros(gindex)
    IN Or(Shl(result, depth), Xor(gindex, Shl({0}, depth)))

RECURSIVE ConcatLoop(_, _, _)
ConcatLoop(result, gindices, k) ==
    IF k > Len(gindices) THEN result
    ELSE ConcatLoop(ConcatStep(result, gindices[k]), gindices, k + 1)

\* mutant: the result starts at 0 instead of the root gindex 1
concat_gindices_zero(gindices) == ConcatLoop({}, gindices, 1)

\* Concatenate generalized indices along a path
concat_gindices(gindices) == ConcatLoop({0}, gindices, 1)

\* mutant: every element is given the gindex of the first
ConsolidationSourcePath_first(consolidations_data_depth, consolidation_index) ==
    << FromNat(HEADER_BASE_GINDEX + STATE_ROOT_FIELD_INDEX),
       FromNat(BEACON_STATE_BASE_GINDEX + PENDING_CONSOLIDATIONS_FIELD_INDEX),
       FromNat(2),
       Shl({0}, consolidations_data_depth),
       FromNat(CONSOLIDATION_BASE_GINDEX + SOURCE_INDEX_FIELD_INDEX) >>

\* the list of gindices handed to concat_gindices for
\* pending_consolidations[i].source_index, the data tree being of depth
\* consolidations_data_depth
ConsolidationSourcePath(consolidations_data_depth, consolidation_index) ==
    << FromNat(HEADER_BASE_GINDEX + STATE_ROOT_FIELD_INDEX),
       FromNat(BEACON_STATE_BASE_GINDEX + PENDING_CONSOLIDATIONS_FIELD_INDEX),
       FromNat(2),
       AddW(Shl({0}, consolidations_data_depth), consolidation_index),
       FromNat(CONSOLIDATION_BASE_GINDEX + SOURCE_INDEX_FIELD_INDEX) >>

\* mutant: the step from the list root to its data root is left out
ValidatorFieldPath_nodata(validators_data_depth, validator_index, field_index) ==
    << FromNat(HEADER_BASE_GINDEX + STATE_ROOT_FIELD_INDEX),
       FromNat(BEACON_STATE_BASE_GINDEX + VALIDATORS_FIELD_INDEX),
       AddW(Shl({0}, validators_data_depth), validator_index),
       FromNat(VALIDATOR_BASE_GINDEX + field_index) >>

\* the same for validators[i].<field>
ValidatorFieldPath(validators_data_depth, validator_index, field_index) ==
    << FromNat(HEADER_BASE_GINDEX + STATE_ROOT_FIELD_INDEX),
       FromNat(BEACON_STATE_BASE_GINDEX + VALIDATORS_FIELD_INDEX),
       FromNat(2),
       AddW(Shl({0}, validators_data_depth), validator_index),
       FromNat(VALIDATOR_BASE_GINDEX + field_index) >>

\* the build features selecting types::preset
Features == {"gnosis", "minimal"}

\* mutant: the two presets the wrong way round
PENDING_CONSOLIDATIONS_DEPTH_swapped(feature) == IF feature = "minimal" THEN 18 ELSE 6

PENDING_CONSOLIDATIONS_DEPTH(feature) == IF feature = "minimal" THEN 6 ELSE 18

validators_tree_depth == 40

pending_consolidations_tree_depth(feature) == PENDING_CONSOLIDATIONS_DEPTH(feature)

consolidation_source_gindex(feature, consolidation_index) ==
    concat_gindices(ConsolidationSourcePath(pending_consolidations_tree_depth(feature),
                                            consolidation_index))

validator_credentials_gindex(validator_index) ==
    concat_gindices(ValidatorFieldPath(validators_tree_depth, validator_index,
                                       WITHDRAWAL_CREDENTIALS_FIELD_INDEX))

validator_activation_epoch_gindex(validator_index) ==
    concat_gindices(ValidatorFieldPath(validators_tree_depth, validator_index,
                                       ACTIVATION_EPOCH_FIELD_INDEX))

consolidation_proof_length(feature) ==
    gindex_depth(consolidation_source_gindex(feature, {}))

validator_proof_length == gindex_depth(validator_credentials_gindex({}))

\* the calculator of the test preset: the same formulas at the depths of
\* MinimalBeaconState (validators 2^10, pending consolidations 2^6)
TEST_VALIDATORS_DEPTH == 10
TEST_CONSOLIDATIONS_DEPTH == 6

test_consolidation_source_gindex(consolidation_index) ==
    concat_gindices(ConsolidationSourcePath(TEST_CONSOLIDATIONS_DEPTH, consolidation_index))

test_validator_credentials_gindex(validator_index) ==
    concat_gindices(ValidatorFieldPath(TEST_VALIDATORS_DEPTH, validator_index,
                                       WITHDRAWAL_CREDENTIALS_FIELD_INDEX))

test_validator_activation_epoch_gindex(validator_index) ==
    concat_gindices(ValidatorFieldPath(TEST_VALIDATORS_DEPTH, validator_index,
                                       ACTIVATION_EPOCH_FIELD_INDEX))

test_consolidation_proof_length == gindex_depth(test_consolidation_source_gindex({}))

test_validator_proof_length == gindex_depth(test_validator_credentials_gindex({}))

\* ProofGenerator::expected_proof_lengths / test_proof_lengths
expected_proof_lengths(feature) ==
    <<consolidation_proof_length(feature), validator_proof_length>>

test_proof_lengths == <<test_consolidation_proof_length, test_validator_proof_length>>

---------------------------------------------------------------------------
(* StateProver *)

BEACON_STATE_FIELD_COUNT == 37

\* depth of the state container tree (compute_state_root, Layer 4)
BEACON_STATE_TREE_DEPTH == 6

NoProver == [err |-> "none", built |-> FALSE]

\* mutant: the field root of the pending consolidations is compared with the
\* root of the list handed over
StateProver_new_checked(field_roots, validators, consolidations, validators_depth, consolidations_depth) ==
    IF Len(field_roots) # BEACON_STATE_FIELD_COUNT
       \/ field_roots[PENDING_CONSOLIDATIONS_FIELD_INDEX + 1]
             # mix_in_length(
                 prove_against_leaf_chunks(
                     [k \in 1..Len(consolidations) |->
                         hash_tree_root(ConsolidationChunks(consolidations[k]))],
                     {}, consolidations_depth).root,
                 Len(consolidations))
    THEN [err |-> "ProofGenerationFailed", built |-> FALSE,
          what |-> <<"Expected {} field roots, got {}",
                     BEACON_STATE_FIELD_COUNT, Len(field_roots)>>]
    ELSE [err |-> "none", built |-> TRUE,
          field_roots |-> field_roots,
          validator_hashes |->
              [k \in 1..Len(validators) |-> hash_tree_root(ValidatorChunks(validators[k]))],
          validator_count |-> Len(validators),
          consolidation_hashes |->
              [k \in 1..Len(consolidations) |->
                  hash_tree_root(ConsolidationChunks(consolidations[k]))],
          consolidation_count |-> Len(consolidations),
          validators_tree_depth |-> validators_depth,
          consolidations_tree_depth |-> consolidations_depth,
          validators |-> validators,
          consolidations |-> consolidations]

\* mutant: only too few field roots are refused
StateProver_new_atleast(field_roots, validators, consolidations, validators_depth, consolidations_depth) ==
    IF Len(field_roots) < BEACON_STATE_FIELD_COUNT
    THEN [err |-> "ProofGenerationFailed", built |-> FALSE,
          what |-> <<"Expected {} field roots, got {}",
                     BEACON_STATE_FIELD_COUNT, Len(field_roots)>>]
    ELSE [err |-> "none", built |-> TRUE,
          field_roots |-> field_roots,
          validator_hashes |->
              [k \in 1..Len(validators) |-> hash_tree_root(ValidatorChunks(validators[k]))],
          validator_count |-> Len(validators),
          consolidation_hashes |->
              [k \in 1..Len(consolidations) |->
                  hash_tree_root(ConsolidationChunks(consolidations[k]))],
          consolidation_count |-> Len(consolidations),
          validators_tree_depth |-> validators_depth,
          consolidations_tree_depth |-> consolidations_depth,
          validators |-> validators,
          consolidations |-> consolidations]

\* StateProver::new
StateProver_new(field_roots, validators, consolidations, validators_depth, consolidations_depth) ==
    IF Len(field_roots) # BEACON_STATE_FIELD_COUNT
    THEN [err |-> "ProofGenerationFailed", built |-> FALSE,
          what |-> <<"Expected {} field roots, got {}",
                     BEACON_STATE_FIELD_COUNT, Len(field_roots)>>]
    ELSE [err |-> "none", built |-> TRUE,
          field_roots |-> field_roots,
          validator_hashes |->
              [k \in 1..Len(validators) |-> hash_tree_root(ValidatorChunks(validators[k]))],
          validator_count |-> Len(validators),
          consolidation_hashes |->
              [k \in 1..Len(consolidations) |->
                  hash_tree_root(ConsolidationChunks(consolidations[k]))],
          consolidation_count |-> Len(consolidations),
          validators_tree_depth |-> validators_depth,
          consolidations_tree_depth |-> consolidations_depth,
          validators |-> validators,
          consolidations |-> consolidations]

\* Compute the state root from the field roots
compute_state_root(self) ==
    prove_against_leaf_chunks(self.field_roots, {}, BEACON_STATE_TREE_DEPTH).root

\* Compute the hash tree root of a list given element hashes and limits
compute_list_root(element_hashes, tree_depth, length) ==
    mix_in_length(prove_against_leaf_chunks(element_hashes, {}, tree_depth).root, length)

Panicked == [err |-> "panic"]

\* mutant: the length chunk is left out of the branch
StateProofOf_nolength(inner, list_data, count, state) ==
    IF list_data.panic \/ state.panic THEN Panicked
    ELSE [err |-> "none",
          proof |-> inner.proof \o list_data.proof \o state.proof,
          leaf |-> inner.leaf]

\* the branch of one element field from the state root: container branch, data
\* tree branch, length chunk, state container branch
StateProofOf(inner, list_data, count, state) ==
    IF list_data.panic \/ state.panic THEN Panicked
    ELSE [err |-> "none",
          proof |-> inner.proof \o list_data.proof
                      \o <<ssz_u64_to_bytes32(FromNat(count))>> \o state.proof,
          leaf |-> inner.leaf]

\* mutant: the error carries the largest valid index instead of the count
prove_consolidation_source_index_max(self, consolidation_index) ==
    IF consolidation_index >= self.consolidation_count
    THEN [err |-> "ConsolidationIndexOutOfBounds",
          args |-> <<consolidation_index, self.consolidation_count - 1>>]
    ELSE StateProofOf(
            prove_small_container_field(
                ConsolidationChunks(self.consolidations[consolidation_index + 1]),
                SOURCE_INDEX_FIELD_INDEX),
            prove_against_leaf_chunks(self.consolidation_hashes,
                                      FromNat(consolidation_index),
                                      self.consolidations_tree_depth),
            self.consolidation_count,
            prove_against_leaf_chunks(self.field_roots,
                                      FromNat(PENDING_CONSOLIDATIONS_FIELD_INDEX),
                                      BEACON_STATE_TREE_DEPTH))

prove_consolidation_source_index(self, consolidation_index) ==
    IF consolidation_index >= self.consolidation_count
    THEN [err |-> "ConsolidationIndexOutOfBounds",
          args |-> <<consolidation_index, self.consolidation_count>>]
    ELSE StateProofOf(
            prove_small_container_field(
                ConsolidationChunks(self.consolidations[consolidation_index + 1]),
                SOURCE_INDEX_FIELD_INDEX),
            prove_against_leaf_chunks(self.consolidation_hashes,
                                      FromNat(consolidation_index),
                                      self.consolidations_tree_depth),
            self.consolidation_count,
            prove_against_leaf_chunks(self.field_roots,
                                      FromNat(PENDING_CONSOLIDATIONS_FIELD_INDEX),
                                      BEACON_STATE_TREE_DEPTH))

\* the two validator proofs differ in the field proved only
ProveValidatorField(self, validator_index, field_index) ==
    IF validator_index >= Len(self.validators)
    THEN [err |-> "ValidatorIndexOutOfBounds",
          args |-> <<FromNat(validator_index), Len(self.validators)>>]
    ELSE StateProofOf(
            prove_small_container_field(
                ValidatorChunks(self.validators[validator_index + 1]), field_index),
            prove_against_leaf_chunks(self.validator_hashes,
                                      FromNat(validator_index),
                                      self.validators_tree_depth),
            self.validator_count,
            prove_against_leaf_chunks(self.field_roots,
                                      FromNat(VALIDATORS_FIELD_INDEX),
                                      BEACON_STATE_TREE_DEPTH))

prove_validator_credentials(self, validator_index) ==
    ProveValidatorField(self, validator_index, WITHDRAWAL_CREDENTIALS_FIELD_INDEX)

prove_validator_activation_epoch(self, validator_index) ==
    ProveValidatorField(self, validator_index, ACTIVATION_EPOCH_FIELD_INDEX)

\* mutant: the bundle names the target of the consolidation as its source
BundleOf_target(header_proof, c, w, a, consolidation_index, consolidation, validator, beacon_timestamp) ==
    IF c.err # "none" THEN c
    ELSE IF w.err # "none" THEN w
    ELSE IF a.err # "none" THEN a
    ELSE [err |-> "none",
          beacon_timestamp |-> beacon_timestamp,
          consolidation_index |-> FromNat(consolidation_index),
          source_index |-> consolidation.target_index,
          activation_epoch |-> validator.activation_epoch,
          source_credentials |-> validator.withdrawal_credentials,
          proof_consolidation |-> c.proof \o header_proof,
          proof_credentials |-> w.proof \o header_proof,
          proof_activation_epoch |-> a.proof \o header_proof]

\* the bundle assembled once the four proofs are there
BundleOf(header_proof, c, w, a, consolidation_index, consolidation, validator, beacon_timestamp) ==
    IF c.err # "none" THEN c
    ELSE IF w.err # "none" THEN w
    ELSE IF a.err # "none" THEN a
    ELSE [err |-> "none",
          beacon_timestamp |-> beacon_timestamp,
          consolidation_index |-> FromNat(consolidation_index),
          source_index |-> consolidation.source_index,
          activation_epoch |-> validator.activation_epoch,
          source_credentials |-> validator.withdrawal_credentials,
          proof_consolidation |-> c.proof \o header_proof,
          proof_credentials |-> w.proof \o header_proof,
          proof_activation_epoch |-> a.proof \o header_proof]

\* mutant: the source validator is looked at once the consolidation branch is there
generate_full_proof_bundle_late(self, header_, consolidation_index, beacon_timestamp) ==
    IF consolidation_index >= self.consolidation_count
    THEN [err |-> "ConsolidationIndexOutOfBounds",
          args |-> <<consolidation_index, self.consolidation_count>>]
    ELSE LET consolidation == self.consolidations[consolidation_index + 1]
             c == prove_consolidation_source_index(self, consolidation_index)
         IN IF c.err # "none" THEN c
            ELSE IF ~Lt(consolidation.source_index, FromNat(Len(self.validators)))
            THEN [err |-> "ValidatorIndexOutOfBounds",
                  args |-> <<consolidation.source_index, Len(self.validators)>>]
            ELSE LET source_index == ToNat(consolidation.source_index)
                 IN BundleOf(
                      prove_small_container_field(HeaderChunks(header_),
                                                  STATE_ROOT_FIELD_INDEX).proof,
                      c,
                      prove_validator_credentials(self, source_index),
                      prove_validator_activation_epoch(self, source_index),
                      consolidation_index, consolidation,
                      self.validators[source_index + 1], beacon_timestamp)

\* Generate full proof bundle from block root for a given consolidation
generate_full_proof_bundle(self, header_, consolidation_index, beacon_timestamp) ==
    IF consolidation_index >= self.consolidation_count
    THEN [err |-> "ConsolidationIndexOutOfBounds",
          args |-> <<consolidation_index, self.consolidation_count>>]
    ELSE LET consolidation == self.consolidations[consolidation_index + 1]
         IN IF ~Lt(consolidation.source_index, FromNat(Len(self.validators)))
            THEN [err |-> "ValidatorIndexOutOfBounds",
                  args |-> <<consolidation.source_index, Len(self.validators)>>]
            ELSE LET source_index == ToNat(consolidation.source_index)
                 IN BundleOf(
                      prove_small_container_field(HeaderChunks(header_),
                                                  STATE_ROOT_FIELD_INDEX).proof,
                      prove_consolidation_source_index(self, consolidation_index),
                      prove_validator_credentials(self, source_index),
                      prove_validator_activation_epoch(self, source_index),
                      consolidation_index, consolidation,
                      self.validators[source_index + 1], beacon_timestamp)

---------------------------------------------------------------------------
(* Verification of a bundle (verify_proof_bundle) *)

\* the three (leaf, branch, gindex) handed to the verifier for a bundle, the
\* gindices being those of data trees of depths validators_data_depth and
\* consolidations_data_depth
BundleClaims(bundle_, validators_data_depth, consolidations_data_depth) ==
    << [leaf |-> ssz_u64_to_bytes32(bundle_.source_index),
        branch |-> bundle_.proof_consolidation,
        gindex |-> concat_gindices(ConsolidationSourcePath(
                        consolidations_data_depth, bundle_.consolidation_index))],
       [leaf |-> <<"c", bundle_.source_credentials>>,
        branch |-> bundle_.proof_credentials,
        gindex |-> concat_gindices(ValidatorFieldPath(
                        validators_data_depth, bundle_.source_index,
                        WITHDRAWAL_CREDENTIALS_FIELD_INDEX))],
       [leaf |-> ssz_u64_to_bytes32(bundle_.activation_epoch),
        branch |-> bundle_.proof_activation_epoch,
        gindex |-> concat_gindices(ValidatorFieldPath(
                        validators_data_depth, bundle_.source_index,
                        ACTIVATION_EPOCH_FIELD_INDEX))] >>

\* what the verifier answers to each of the three
VerifyClaims(claims, block_root) ==
    [p \in 1..3 |-> verify(claims[p].leaf, claims[p].branch, claims[p].gindex, block_root)]

\* verify_proof_bundle: the first failing proof ends the call, the verifier's
\* error being formatted into ProofGenerationFailed
verify_proof_bundle(results) ==
    IF results[1] # "Ok" THEN [err |-> "ProofGenerationFailed", what |-> "Consolidation proof invalid"]
    ELSE IF results[2] # "Ok" THEN [err |-> "ProofGenerationFailed", what |-> "Credentials proof invalid"]
    ELSE IF results[3] # "Ok" THEN [err |-> "ProofGenerationFailed", what |-> "Activation epoch proof invalid"]
    ELSE [err |-> "none"]

\* tamper_proof: bit 0 of byte 0 of a 32-byte value flipped; a flipped digest
\* is a value that is no digest
flip_bit(x) ==
    IF x[1] = "c"
    THEN <<"c", [x[2] EXCEPT ![1] = IF @ % 2 = 0 THEN @ + 1 ELSE @ - 1]>>
    ELSE IF x[1] = "t" THEN x[2]
    ELSE <<"t", x>>

---------------------------------------------------------------------------
(* Beacon API client: strings, parsing and the five endpoint calls.  A     *)
(* string is the sequence of its characters; a response of the node is the *)
(* status it answered with and its body, or no answer at all.              *)

DecDigits == <<"0", "1", "2", "3", "4", "5", "6", "7", "8", "9">>

HexLower == <<"0", "1", "2", "3", "4", "5", "6", "7", "8", "9", "a", "b", "c", "d", "e", "f">>

HexUpper == <<"0", "1", "2", "3", "4", "5", "6", "7", "8", "9", "A", "B", "C", "D", "E", "F">>

IndexIn(c, alphabet) == CHOOSE k \in 1..Len(alphabet) : alphabet[k] = c

IsIn(c, alphabet) == \E k \in 1..Len(alphabet) : alphabet[k] = c

\* the characters that are decimal digits, and the value of each
DecChars == {DecDigits[k] : k \in 1..Len(DecDigits)}

DecDigitValue == [c \in DecChars |-> IndexIn(c, DecDigits) - 1]

\* the characters that are hexadecimal digits, and the value of each
HexChars == {HexLower[k] : k \in 1..Len(HexLower)} \cup {HexUpper[k] : k \in 1..Len(HexUpper)}

HexDigitValue ==
    [c \in HexChars |-> IF IsIn(c, HexLower) THEN IndexIn(c, HexLower) - 1
                        ELSE IndexIn(c, HexUpper) - 1]

Ok(value) == [ok |-> TRUE, value |-> value]

Err(kind, what) == [ok |-> FALSE, err |-> kind, what |-> what]

\* the value of a string of decimal digits, most significant first
RECURSIVE DecValue(_)
DecValue(s) ==
    IF s = <<>> THEN 0
    ELSE 10 * DecValue(SubSeq(s, 1, Len(s) - 1)) + DecDigitValue[s[Len(s)]]

\* str::parse::<u64>: an optional "+", then one decimal digit at least
parse_u64(s) ==
    LET digits == IF s # <<>> /\ s[1] = "+" THEN Tail(s) ELSE s
    IN IF s = <<>> THEN Err("ParseIntError", "Empty")
       ELSE IF digits = <<>> \/ \E k \in 1..Len(digits) : digits[k] \notin DecChars
       THEN Err("ParseIntError", "InvalidDigit")
       ELSE Ok(FromNat(DecValue(digits)))

\* s.strip_prefix("0x").unwrap_or(s)
strip_prefix_0x(s) ==
    IF Len(s) >= 2 /\ s[1] = "0" /\ s[2] = "x" THEN SubSeq(s, 3, Len(s)) ELSE s

\* hex::decode
hex_decode(s) ==
    IF Len(s) % 2 = 1 THEN Err("FromHexError", "OddLength")
    ELSE IF \E k \in 1..Len(s) : s[k] \notin HexChars
    THEN Err("FromHexError", "InvalidHexCharacter")
    ELSE Ok([k \in 1..(Len(s) \div 2) |->
                16 * HexDigitValue[s[2 * k - 1]] + HexDigitValue[s[2 * k]]])

parse_hex32(s) ==
    LET bytes == hex_decode(strip_prefix_0x(s))
    IN IF ~bytes.ok THEN Err("InvalidResponse", <<"Invalid hex", bytes.what>>)
       ELSE IF Len(bytes.value) # CHUNK_BYTES
       THEN Err("InvalidResponse", <<"Expected 32 bytes">>)
       ELSE Ok(<<"c", bytes.value>>)

NOT_FOUND == 404

\* StatusCode::is_success
is_success(status) == 200 <= status /\ status <= 299

\* no answer: the request could not be sent
NoAnswer == [sent |-> FALSE]

Answer(status, body) == [sent |-> TRUE, status |-> status, body |-> body]

\* a body that is no JSON document of the shape the endpoint deserialises
Garbage == [shape |-> "garbage"]

\* block_id.parse().unwrap_or(0)
parse_or_0(id) == LET n == parse_u64(id) IN IF n.ok THEN n.value ELSE {}

get_state_ssz(state_id, response) ==
    IF ~response.sent THEN Err("HttpError", <<"send">>)
    ELSE IF response.status = NOT_FOUND THEN Err("StateNotFound", parse_or_0(state_id))
    ELSE IF ~is_success(response.status)
    THEN Err("InvalidResponse", <<"Unexpected status", response.status>>)
    ELSE Ok(response.body)

get_header(block_id, response) ==
    IF ~response.sent THEN Err("HttpError", <<"send">>)
    ELSE IF response.status = NOT_FOUND THEN Err("HeaderNotFound", parse_or_0(block_id))
    ELSE IF response.body.shape # "header" THEN Err("HttpError", <<"decode">>)
    ELSE LET msg == response.body.message
             slot == parse_u64(msg.slot)
             proposer_index == parse_u64(msg.proposer_index)
             parent_root == parse_hex32(msg.parent_root)
             state_root == parse_hex32(msg.state_root)
             body_root == parse_hex32(msg.body_root)
         IN IF ~slot.ok THEN Err("InvalidResponse", <<"Invalid slot", slot.what>>)
            ELSE IF ~proposer_index.ok
            THEN Err("InvalidResponse", <<"Invalid proposer_index", proposer_index.what>>)
            ELSE IF ~parent_root.ok THEN parent_root
            ELSE IF ~state_root.ok THEN state_root
            ELSE IF ~body_root.ok THEN body_root
            ELSE Ok([slot |-> slot.value, proposer_index |-> proposer_index.value,
                     parent_root |-> parent_root.value, state_root |-> state_root.value,
                     body_root |-> body_root.value])

get_finality_checkpoints(response) ==
    IF ~response.sent THEN Err("HttpError", <<"send">>)
    ELSE IF response.body.shape # "checkpoints" THEN Err("HttpError", <<"decode">>)
    ELSE LET data == response.body.data
             previous_justified_epoch == parse_u64(data.previous_justified.epoch)
             current_justified_epoch == parse_u64(data.current_justified.epoch)
             finalized_epoch == parse_u64(data.finalized.epoch)
             finalized_root == parse_hex32(data.finalized.root)
         IN IF ~previous_justified_epoch.ok
            THEN Err("InvalidResponse", <<"Invalid epoch", previous_justified_epoch.what>>)
            ELSE IF ~current_justified_epoch.ok
            THEN Err("InvalidResponse", <<"Invalid epoch", current_justified_epoch.what>>)
            ELSE IF ~finalized_epoch.ok
            THEN Err("InvalidResponse", <<"Invalid epoch", finalized_epoch.what>>)
            ELSE IF ~finalized_root.ok THEN finalized_root
            ELSE Ok([previous_justified_epoch |-> previous_justified_epoch.value,
                     current_justified_epoch |-> current_justified_epoch.value,
                     finalized_epoch |-> finalized_epoch.value,
                     finalized_root |-> finalized_root.value])

get_head_slot(response) ==
    LET header_ == get_header(<<"h", "e", "a", "d">>, response)
    IN IF header_.ok THEN Ok(header_.value.slot) ELSE header_

\* the entries of data parsed in order, up to the first that does not parse
RECURSIVE ParseEntries(_, _)
ParseEntries(data, out) ==
    IF data = <<>> THEN Ok(out)
    ELSE LET source_index == parse_u64(data[1].source_index)
             target_index == parse_u64(data[1].target_index)
         IN IF ~source_index.ok
            THEN Err("InvalidResponse", <<"Invalid source_index", source_index.what>>)
            ELSE IF ~target_index.ok
            THEN Err("InvalidResponse", <<"Invalid target_index", target_index.what>>)
            ELSE ParseEntries(Tail(data),
                              Append(out, [source_index |-> source_index.value,
                                           target_index |-> target_index.value]))

get_pending_consolidations(state_id, response) ==
    IF ~response.sent THEN Err("HttpError", <<"send">>)
    ELSE IF response.status = NOT_FOUND
    THEN Err("InvalidResponse", <<"pending_consolidations not found for state_id", state_id>>)
    ELSE IF ~is_success(response.status)
    THEN Err("InvalidResponse", <<"Unexpected status", response.status>>)
    ELSE IF response.body.shape # "consolidations" THEN Err("HttpError", <<"decode">>)
    ELSE ParseEntries(response.body.data, <<>>)

get_validator_info(state_id, validator_id, response) ==
    IF ~response.sent THEN Err("HttpError", <<"send">>)
    ELSE IF response.status = NOT_FOUND
    THEN Err("InvalidResponse", <<"validator not found for state_id", validator_id, state_id>>)
    ELSE IF ~is_success(response.status)
    THEN Err("InvalidResponse", <<"Unexpected status", response.status>>)
    ELSE IF response.body.shape # "validator" THEN Err("HttpError", <<"decode">>)
    ELSE LET validator == response.body.data.validator
             withdrawal_credentials == parse_hex32(validator.withdrawal_credentials)
             activation_epoch == parse_u64(validator.activation_epoch)
         IN IF ~withdrawal_credentials.ok THEN withdrawal_credentials
            ELSE IF ~activation_epoch.ok
            THEN Err("InvalidResponse", <<"Invalid activation_epoch", activation_epoch.what>>)
            ELSE Ok([withdrawal_credentials |-> withdrawal_credentials.value,
                     activation_epoch |-> activation_epoch.value])

NoClient == [op |-> "none"]

---------------------------------------------------------------------------
(* Service: the shared application state, the health endpoint, the scanner *)

None == [some |-> FALSE]

Some(value) == [some |-> TRUE, value |-> value]

\* a borrow reaches bit i of a - b
Borrow(a, b, i) ==
    \E j \in 0..(i - 1) :
        /\ j \in b /\ j \notin a
        /\ \A k \in (j + 1)..(i - 1) : ~(k \in a /\ k \notin b)

\* a - b, wrapping at 2^64
wrapping_sub(a, b) ==
    {i \in 0..(WORD_BITS - 1) : ((i \in a) # (i \in b)) # Borrow(a, b, i)}

\* u64::saturating_sub
saturating_sub(a, b) == IF Lt(a, b) THEN {} ELSE wrapping_sub(a, b)

\* AppState::new
AppState_new ==
    [current_slot |-> {}, current_epoch |-> {}, head_slot |-> {},
     consolidations |-> <<>>, last_error |-> None]

set_current_slot(self, slot) == [self EXCEPT !.current_slot = slot]

set_current_epoch(self, epoch) == [self EXCEPT !.current_epoch = epoch]

set_head_slot(self, slot) == [self EXCEPT !.head_slot = slot]

\* mutant: the head is taken from the synced slot
slots_behind_reversed(self) == saturating_sub(self.current_slot, self.head_slot)

slots_behind(self) == saturating_sub(self.head_slot, self.current_slot)

is_healthy(self) == ~Lt(FromNat(64), slots_behind(self))

\* DashMap::insert under the record's source index
upsert_consolidation(self, record) ==
    [self EXCEPT !.consolidations =
        [k \in (DOMAIN @) \cup {record.source_index} |->
            IF k = record.source_index THEN record ELSE @[k]]]

get_consolidation(self, source_index) ==
    IF source_index \in DOMAIN self.consolidations
    THEN Some(self.consolidations[source_index])
    ELSE None

set_error(self, error) == [self EXCEPT !.last_error = error]

SERVICE_UNAVAILABLE == 503

\* the /health handler: the status code and the JSON body
health(self) ==
    LET healthy == is_healthy(self)
    IN [status_code |-> IF healthy THEN 200 ELSE SERVICE_UNAVAILABLE,
        status |-> IF healthy THEN "healthy" ELSE "degraded",
        slots_behind |-> slots_behind(self)]

NoResponse == [asked |-> FALSE]

\* ScannerConfig::default().slots_per_epoch
slots_per_epoch == FromNat(16)

\* Scanner::new; poll is the last poll made and how it went
Scanner_new == [last_finalized_epoch |-> {}, poll |-> [made |-> FALSE]]

\* u64::to_string, for a word below 2^30
RECURSIVE DecString(_)
DecString(n) ==
    IF n < 10 THEN <<DecDigits[n + 1]>>
    ELSE Append(DecString(n \div 10), DecDigits[(n % 10) + 1])

to_string(w) == DecString(ToNat(w))

\* mutant: an entry replaces the record tracked for its source index
RECURSIVE process_consolidations_overwrite(_, _, _)
process_consolidations_overwrite(self, consolidations, epoch) ==
    IF consolidations = <<>> THEN self
    ELSE LET entry == consolidations[1]
             record == [source_index |-> entry.source_index,
                        target_index |-> entry.target_index,
                        epoch_seen |-> epoch, status |-> "Detected",
                        tx_hash |-> None, error |-> None]
         IN process_consolidations_overwrite(upsert_consolidation(self, record),
                                             Tail(consolidations), epoch)

\* the entries in order: one whose source index is tracked is skipped, any
\* other is inserted as a record of its own
RECURSIVE process_consolidations(_, _, _)
process_consolidations(self, consolidations, epoch) ==
    IF consolidations = <<>> THEN self
    ELSE LET entry == consolidations[1]
             record == [source_index |-> entry.source_index,
                        target_index |-> entry.target_index,
                        epoch_seen |-> epoch, status |-> "Detected",
                        tx_hash |-> None, error |-> None]
         IN IF get_consolidation(self, entry.source_index).some
            THEN process_consolidations(self, Tail(consolidations), epoch)
            ELSE process_consolidations(upsert_consolidation(self, record),
                                        Tail(consolidations), epoch)

\* what one poll leaves: the application state, the scanner's epoch, whether
\* the pending consolidations were fetched, and the result
PollResult(self, last, epoch, fetched, ret) ==
    [state |-> self, last_finalized_epoch |-> last, epoch |-> epoch,
     fetched |-> fetched, ret |-> ret]

\* mutant: the epoch is stored although the fetch has failed
poll_consolidations_early(last_finalized_epoch, self, finalized_epoch, consolidations) ==
    IF ~consolidations.ok
    THEN PollResult(self, finalized_epoch, Some(finalized_epoch), TRUE, consolidations)
    ELSE PollResult(IF consolidations.value = <<>> THEN self
                    ELSE process_consolidations(self, consolidations.value, finalized_epoch),
                    finalized_epoch, Some(finalized_epoch), TRUE, Ok(<<>>))

\* Scanner::poll_once from the result of the fetch on: an error is returned
\* as it is, a list is processed if it is not empty and the epoch is stored
poll_consolidations(last_finalized_epoch, self, finalized_epoch, consolidations) ==
    IF ~consolidations.ok
    THEN PollResult(self, last_finalized_epoch, Some(finalized_epoch), TRUE, consolidations)
    ELSE PollResult(IF consolidations.value = <<>> THEN self
                    ELSE process_consolidations(self, consolidations.value, finalized_epoch),
                    finalized_epoch, Some(finalized_epoch), TRUE, Ok(<<>>))

\* Scanner::poll_once from the finalized epoch on: the slot and the epoch are
\* set, and the pending consolidations of the slot are fetched if the epoch
\* is above the last one
poll_finalized(last_finalized_epoch, self, finalized_epoch, finalized_slot, consolidations_response) ==
    IF ~Lt(last_finalized_epoch, finalized_epoch)
    THEN PollResult(set_current_epoch(set_current_slot(self, finalized_slot),
                                      finalized_epoch),
                    last_finalized_epoch, Some(finalized_epoch), FALSE, Ok(<<>>))
    ELSE poll_consolidations(
            last_finalized_epoch,
            set_current_epoch(set_current_slot(self, finalized_slot), finalized_epoch),
            finalized_epoch,
            get_pending_consolidations(to_string(finalized_slot), consolidations_response))

\* Scanner::poll_once from the checkpoints on
poll_checkpoints(last_finalized_epoch, self, checkpoints, consolidations_response) ==
    IF ~checkpoints.ok
    THEN PollResult(self, last_finalized_epoch, None, FALSE, checkpoints)
    ELSE poll_finalized(last_finalized_epoch, self, checkpoints.value.finalized_epoch,
                        MulW(checkpoints.value.finalized_epoch, slots_per_epoch),
                        consolidations_response)

\* Scanner::poll_once from the head slot on
poll_head(last_finalized_epoch, self, head_slot, checkpoints_response, consolidations_response) ==
    IF ~head_slot.ok
    THEN PollResult(self, last_finalized_epoch, None, FALSE, head_slot)
    ELSE poll_checkpoints(last_finalized_epoch, set_head_slot(self, head_slot.value),
                          get_finality_checkpoints(checkpoints_response),
                          consolidations_response)

\* Scanner::poll_once, given what the node answers to its three requests
poll_once(last_finalized_epoch, self, head_response, checkpoints_response, consolidations_response) ==
    poll_head(last_finalized_epoch, self, get_head_slot(head_response),
              checkpoints_response, consolidations_response)

\* the loop of Scanner::run after a poll: the error of the poll is kept, or
\* the one kept is cleared
run_after(polled) ==
    [polled EXCEPT !.state = set_error(@, IF polled.ret.ok THEN None
                                          ELSE Some(polled.ret))]

\* one turn of the loop of Scanner::run
run_once(last_finalized_epoch, self, head_response, checkpoints_response, consolidations_response) ==
    run_after(poll_once(last_finalized_epoch, self, head_response,
                        checkpoints_response, consolidations_response))

\* nothing of the service has run
ServiceIdle ==
    /\ client = NoClient
    /\ app_state = AppState_new
    /\ scanner = Scanner_new
    /\ health_response = NoResponse

---------------------------------------------------------------------------
(* Specification of the sparse engine: inputs drawn, calls applied *)

LeafValues == {ZeroChunk, FillChunk(1), FillChunk(2)}

LeafSeqs == UNION {[1..n -> LeafValues] : n \in 0..MaxLeaves}

\* depth of the large sparse case (as in test_prove_large_depth_sparse)
BIG_DEPTH == 20

EngDepths == (0..MaxDepth) \cup {BIG_DEPTH}

\* indices tried at a depth: all of them at small depths, both ends otherwise;
\* 2^d is the first index the assert refuses
EngIndices(d) ==
    IF d <= MaxDepth THEN {FromNat(i) : i \in 0..(2^d)}
    ELSE {FromNat(i) : i \in 0..MaxLeaves}
         \cup {Shl({0}, d - 1), (0..(d - 1)), Shl({0}, d)}

EngNone == [op |-> "none"]

NoHeader == [slot |-> {}, proposer_index |-> {}, parent_root |-> ZeroChunk,
             state_root |-> ZeroChunk, body_root |-> ZeroChunk]

NoCall == [op |-> "none"]

NoVerdict == [how |-> "none"]

NoCalc == [op |-> "none"]

InitSparse ==
    /\ leaf_chunks \in LeafSeqs
    /\ eng = EngNone
    /\ prover = NoProver
    /\ header = NoHeader
    /\ call = NoCall
    /\ first = NoCall
    /\ verdict = NoVerdict
    /\ calc = NoCalc
    /\ ServiceIdle

Prove ==
    \E d \in EngDepths : \E i \in EngIndices(d) :
        /\ eng = EngNone
        /\ eng' = [op |-> "prove", index |-> i, depth |-> d,
                   ret |-> prove_against_leaf_chunks(leaf_chunks, i, d)]
        /\ UNCHANGED <<leaf_chunks, prover, header, call, first, verdict, calc, client, app_state, scanner, health_response>>

SubtreeRoot ==
    \E d \in EngDepths : \E s \in 0..MaxStart :
        /\ eng = EngNone
        /\ eng' = [op |-> "subtree", start |-> FromNat(s), depth |-> d,
                   ret |-> compute_subtree_root(leaf_chunks, FromNat(s), d, zero_hashes)]
        /\ UNCHANGED <<leaf_chunks, prover, header, call, first, verdict, calc, client, app_state, scanner, health_response>>

\* the depths and in-range indices of the calls whose reads are followed: those
\* of the engine calls, and the capacity depth of the validators at the
\* indices of the populated leaves
ReadDepths == EngDepths \cup {validators_tree_depth}

ReadIndices(d) ==
    {i \in (IF d <= BIG_DEPTH THEN EngIndices(d)
                            ELSE {FromNat(n) : n \in 0..MaxLeaves}) : Lt(i, Shl({0}, d))}

\* a call of prove_against_leaf_chunks followed for its reads of the table
ProveReads ==
    \E d \in ReadDepths : \E i \in ReadIndices(d) :
        /\ eng = EngNone
        /\ eng' = [op |-> "prove_reads", index |-> i, depth |-> d,
                   reads |-> prove_zh_reads(leaf_chunks, i, d),
                   recursion |-> prove_recursion(leaf_chunks, i, d)]
        /\ UNCHANGED <<leaf_chunks, prover, header, call, first, verdict, calc, client, app_state, scanner, health_response>>

\* lengths mixed into a list root: they need not be the number of hashes
ListLengths == (0..MaxLeaves) \cup {258}

ProveListElement ==
    \E d \in EngDepths : \E i \in EngIndices(d) : \E length \in ListLengths :
        /\ eng = EngNone
        /\ eng' = [op |-> "prove_list_element", index |-> i, depth |-> d,
                   length |-> length,
                   ret |-> prove_list_element(leaf_chunks, i, d, length)]
        /\ UNCHANGED <<leaf_chunks, prover, header, call, first, verdict, calc, client, app_state, scanner, health_response>>

ComputeListRoot ==
    \E d \in EngDepths : \E length \in ListLengths :
        /\ eng = EngNone
        /\ eng' = [op |-> "compute_list_root", depth |-> d, length |-> length,
                   ret |-> compute_list_root(leaf_chunks, d, length)]
        /\ UNCHANGED <<leaf_chunks, prover, header, call, first, verdict, calc, client, app_state, scanner, health_response>>

\* a container of num_fields fields, field_index within them or just past
ProveContainerField ==
    \E num_fields \in 0..MaxFields : \E field_index \in 0..num_fields :
        /\ eng = EngNone
        /\ eng' = [op |-> "prove_container_field", index |-> field_index,
                   num_fields |-> num_fields,
                   ret |-> prove_container_field(leaf_chunks, FromNat(field_index),
                                                 num_fields)]
        /\ UNCHANGED <<leaf_chunks, prover, header, call, first, verdict, calc, client, app_state, scanner, health_response>>

NextSparse ==
    \/ Prove
    \/ SubtreeRoot
    \/ ProveReads
    \/ ProveListElement
    \/ ComputeListRoot
    \/ ProveContainerField

SpecSparse == InitSparse /\ [][NextSparse]_vars

---------------------------------------------------------------------------
(* Specification of the gindex calculator: one call of GindexCalculator, its
   arguments drawn *)

\* positive gindices handed to concat_gindices and gindex_depth: the roots and
\* fields of the containers, list elements, and values near the top of a u64
Gindices ==
    {FromNat(n) : n \in {1, 2, 3, 4, 5, 7, 8, 11, 75, 100}}
        \cup {Shl({0}, 18), Or(Shl({0}, 40), {0}), Shl({0}, 62), Or(Shl({0}, 63), {1}),
              0..(WORD_BITS - 1)}

GindexPaths == UNION {[1..n -> Gindices] : n \in 0..MaxPath}

\* the element indices a list of capacity 2^depth is asked for: both ends, the
\* middle, and the first index past the capacity
CalcIndices(depth) ==
    {{}, {0}, {1}, Shl({0}, depth - 1), 0..(depth - 1), Shl({0}, depth)}

InitGindex ==
    /\ leaf_chunks = <<>>
    /\ eng = EngNone
    /\ prover = NoProver
    /\ header = NoHeader
    /\ call = NoCall
    /\ first = NoCall
    /\ verdict = NoVerdict
    /\ calc = NoCalc
    /\ ServiceIdle

CalcConcatGindices ==
    \E gindices \in GindexPaths :
        /\ calc = NoCalc
        /\ calc' = [op |-> "concat_gindices", gindices |-> gindices,
                    ret |-> concat_gindices(gindices)]
        /\ UNCHANGED <<leaf_chunks, eng, prover, header, call, first, verdict, client, app_state, scanner, health_response>>

CalcGindexDepth ==
    \E gindex \in Gindices :
        /\ calc = NoCalc
        /\ calc' = [op |-> "gindex_depth", gindex |-> gindex, ret |-> gindex_depth(gindex)]
        /\ UNCHANGED <<leaf_chunks, eng, prover, header, call, first, verdict, client, app_state, scanner, health_response>>

CalcConsolidationSourceGindex ==
    \E feature \in Features :
      \E consolidation_index \in CalcIndices(pending_consolidations_tree_depth(feature)) :
        /\ calc = NoCalc
        /\ calc' = [op |-> "consolidation_source_gindex", feature |-> feature,
                    index |-> consolidation_index,
                    ret |-> consolidation_source_gindex(feature, consolidation_index)]
        /\ UNCHANGED <<leaf_chunks, eng, prover, header, call, first, verdict, client, app_state, scanner, health_response>>

CalcValidatorCredentialsGindex ==
    \E feature \in Features : \E validator_index \in CalcIndices(validators_tree_depth) :
        /\ calc = NoCalc
        /\ calc' = [op |-> "validator_credentials_gindex", feature |-> feature,
                    index |-> validator_index,
                    ret |-> validator_credentials_gindex(validator_index)]
        /\ UNCHANGED <<leaf_chunks, eng, prover, header, call, first, verdict, client, app_state, scanner, health_response>>

CalcValidatorActivationEpochGindex ==
    \E feature \in Features : \E validator_index \in CalcIndices(validators_tree_depth) :
        /\ calc = NoCalc
        /\ calc' = [op |-> "validator_activation_epoch_gindex", feature |-> feature,
                    index |-> validator_index,
                    ret |-> validator_activation_epoch_gindex(validator_index)]
        /\ UNCHANGED <<leaf_chunks, eng, prover, header, call, first, verdict, client, app_state, scanner, health_response>>

CalcConsolidationProofLength ==
    \E feature \in Features :
        /\ calc = NoCalc
        /\ calc' = [op |-> "consolidation_proof_length", feature |-> feature,
                    ret |-> consolidation_proof_length(feature)]
        /\ UNCHANGED <<leaf_chunks, eng, prover, header, call, first, verdict, client, app_state, scanner, health_response>>

CalcValidatorProofLength ==
    \E feature \in Features :
        /\ calc = NoCalc
        /\ calc' = [op |-> "validator_proof_length", feature |-> feature,
                    ret |-> validator_proof_length]
        /\ UNCHANGED <<leaf_chunks, eng, prover, header, call, first, verdict, client, app_state, scanner, health_response>>

NextGindex ==
    \/ CalcConcatGindices
    \/ CalcGindexDepth
    \/ CalcConsolidationSourceGindex
    \/ CalcValidatorCredentialsGindex
    \/ CalcValidatorActivationEpochGindex
    \/ CalcConsolidationProofLength
    \/ CalcValidatorProofLength

SpecGindex == InitGindex /\ [][NextGindex]_vars

---------------------------------------------------------------------------
(* Specification of the prover: a state, a prover built from it, one call of
   the prover, and one verification of the bundle it returned *)

\* (validators_tree_depth, consolidations_tree_depth) the prover is built with:
\* gnosis, the minimal feature, MinimalBeaconState, and trees small enough to
\* be filled, the consolidations holding more entries than their tree has
\* leaves
DepthPairs == {<<40, 18>>, <<40, 6>>, <<10, 6>>, <<1, 0>>}

\* tests: make_validator(index)
make_validator(index) ==
    [pubkey |-> [i \in 1..48 |-> 0],
     withdrawal_credentials |->
         [i \in 1..CHUNK_BYTES |-> IF i = 1 THEN 1 ELSE IF i >= 13 THEN index ELSE 0],
     effective_balance |-> {14, 16, 19, 20, 22, 24, 25, 28, 29, 30, 32, 33, 34},
     slashed |-> FALSE,
     activation_eligibility_epoch |-> {},
     activation_epoch |-> FromNat(100 + index),
     exit_epoch |-> {},
     withdrawable_epoch |-> {}]

ValidatorSeq(n) == [k \in 1..n |-> make_validator(k - 1)]

\* pending consolidations, some naming a validator that is not there
ConsolidationValues ==
    {[source_index |-> FromNat(s), target_index |-> FromNat((s + 1) % (MaxValidators + 1))] :
        s \in 0..MaxValidators}

ConsolidationSeqs == UNION {[1..n -> ConsolidationValues] : n \in 0..MaxConsolidations}

\* the 37 field roots of a state: the two lists by compute_list_root, slot
\* 1000, zero for the u64 fields that are 0, a fixed root for every other field
compute_field_roots(validators, consolidations, validators_depth, consolidations_depth) ==
    [k \in 1..BEACON_STATE_FIELD_COUNT |->
        IF k = VALIDATORS_FIELD_INDEX + 1
        THEN compute_list_root(
                [j \in 1..Len(validators) |-> hash_tree_root(ValidatorChunks(validators[j]))],
                validators_depth, Len(validators))
        ELSE IF k = PENDING_CONSOLIDATIONS_FIELD_INDEX + 1
        THEN compute_list_root(
                [j \in 1..Len(consolidations) |->
                    hash_tree_root(ConsolidationChunks(consolidations[j]))],
                consolidations_depth, Len(consolidations))
        ELSE IF k = 3 THEN ssz_u64_to_bytes32(FromNat(1000))
        ELSE IF k \in {1, 2, 11, 26, 27} \cup (29..34) THEN ZeroChunk
        ELSE FillChunk(k)]

\* headers: one committing to the prover's state root, one that does not
Headers(self) ==
    {[slot |-> FromNat(1000), proposer_index |-> {}, parent_root |-> ZeroChunk,
      state_root |-> sr, body_root |-> FillChunk(1)] :
        sr \in {compute_state_root(self), ZeroChunk}}

\* 1234567 and 1234567890 = 2^30 + 160826066
Timestamps == {FromNat(1234567), Or(Shl({0}, 30), FromNat(160826066))}

Init ==
    /\ leaf_chunks = <<>>
    /\ eng = EngNone
    /\ \E d \in DepthPairs : \E n \in 0..MaxValidators : \E cs \in ConsolidationSeqs :
          prover = StateProver_new(compute_field_roots(ValidatorSeq(n), cs, d[1], d[2]),
                                   ValidatorSeq(n), cs, d[1], d[2])
    /\ header \in Headers(prover)
    /\ call = NoCall
    /\ first = NoCall
    /\ verdict = NoVerdict
    /\ calc = NoCalc
    /\ ServiceIdle

\* a call returns: it is the last call, and the first one if none was made
Returned(c) == call' = c /\ first' = IF first = NoCall THEN c ELSE first

\* mutant: the field roots are padded to the 64 leaves of the state tree in
\* place
CallComputeStateRoot_padding ==
    /\ prover.built
    /\ Returned([op |-> "compute_state_root", ret |-> compute_state_root(prover)])
    /\ prover' = [prover EXCEPT !.field_roots =
                      [k \in 1..(2^BEACON_STATE_TREE_DEPTH) |->
                          IF k <= Len(@) THEN @[k] ELSE ZeroChunk]]
    /\ UNCHANGED <<leaf_chunks, eng, header, verdict, calc, client, app_state, scanner, health_response>>

CallComputeStateRoot ==
    /\ prover.built
    /\ Returned([op |-> "compute_state_root", ret |-> compute_state_root(prover)])
    /\ UNCHANGED <<leaf_chunks, eng, prover, header, verdict, calc, client, app_state, scanner, health_response>>

CallProveConsolidationSourceIndex ==
    \E i \in 0..MaxConsolidations :
        /\ prover.built
        /\ Returned([op |-> "prove_consolidation_source_index", index |-> i,
                     ret |-> prove_consolidation_source_index(prover, i)])
        /\ UNCHANGED <<leaf_chunks, eng, prover, header, verdict, calc, client, app_state, scanner, health_response>>

CallProveValidatorCredentials ==
    \E j \in 0..MaxValidators :
        /\ prover.built
        /\ Returned([op |-> "prove_validator_credentials", index |-> j,
                     ret |-> prove_validator_credentials(prover, j)])
        /\ UNCHANGED <<leaf_chunks, eng, prover, header, verdict, calc, client, app_state, scanner, health_response>>

CallProveValidatorActivationEpoch ==
    \E j \in 0..MaxValidators :
        /\ prover.built
        /\ Returned([op |-> "prove_validator_activation_epoch", index |-> j,
                     ret |-> prove_validator_activation_epoch(prover, j)])
        /\ UNCHANGED <<leaf_chunks, eng, prover, header, verdict, calc, client, app_state, scanner, health_response>>

CallGenerateFullProofBundle ==
    \E i \in 0..MaxConsolidations : \E ts \in Timestamps :
        /\ prover.built
        /\ Returned([op |-> "generate_full_proof_bundle", index |-> i, ts |-> ts,
                     ret |-> generate_full_proof_bundle(prover, header, i, ts)])
        /\ UNCHANGED <<leaf_chunks, eng, prover, header, verdict, calc, client, app_state, scanner, health_response>>

\* one call of the prover per behaviour
ComputeStateRoot == call = NoCall /\ CallComputeStateRoot

ProveConsolidationSourceIndex == call = NoCall /\ CallProveConsolidationSourceIndex

ProveValidatorCredentials == call = NoCall /\ CallProveValidatorCredentials

ProveValidatorActivationEpoch == call = NoCall /\ CallProveValidatorActivationEpoch

GenerateFullProofBundle == call = NoCall /\ CallGenerateFullProofBundle

\* a bundle has been returned and not yet been shown to the verifier
BundleReturned == call.op = "generate_full_proof_bundle" /\ call.ret.err = "none"

\* the claims of the returned bundle, at the depths of the prover
ReturnedClaims ==
    BundleClaims(call.ret, prover.validators_tree_depth, prover.consolidations_tree_depth)

block_root == hash_tree_root(HeaderChunks(header))

Verdict(how, p, pos, claims, root) ==
    LET results == VerifyClaims(claims, root)
    IN [how |-> how, p |-> p, pos |-> pos, root |-> root,
        lens |-> [q \in 1..3 |-> Len(claims[q].branch)],
        depths |-> [q \in 1..3 |-> gindex_depth(claims[q].gindex)],
        results |-> results,
        ret |-> verify_proof_bundle(results)]

\* the bundle verified as returned
VerifyBundle ==
    /\ BundleReturned /\ verdict = NoVerdict
    /\ verdict' = Verdict("as_returned", 0, 0, ReturnedClaims, block_root)
    /\ UNCHANGED <<leaf_chunks, eng, prover, header, call, first, calc, client, app_state, scanner, health_response>>

\* position 0 of a claim is its leaf, position k its k-th sibling
ClaimAt(c, pos) == IF pos = 0 THEN c.leaf ELSE c.branch[pos]

Replace(c, pos, v) ==
    IF pos = 0 THEN [c EXCEPT !.leaf = v] ELSE [c EXCEPT !.branch[pos] = v]

\* the values put in the place of a leaf or sibling
Replacements(orig) == {flip_bit(orig), ZeroChunk} \ {orig}

\* one leaf or one sibling of one proof replaced before verification
VerifyTampered ==
    /\ BundleReturned /\ verdict = NoVerdict
    /\ \E p \in 1..3 : \E pos \in 0..Len(ReturnedClaims[p].branch) :
          \E v \in Replacements(ClaimAt(ReturnedClaims[p], pos)) :
             verdict' = Verdict("tampered", p, pos,
                                [ReturnedClaims EXCEPT ![p] = Replace(@, pos, v)],
                                block_root)
    /\ UNCHANGED <<leaf_chunks, eng, prover, header, call, first, calc, client, app_state, scanner, health_response>>

\* the consolidation branch supplied as the credentials branch
VerifySwapped ==
    /\ BundleReturned /\ verdict = NoVerdict
    /\ verdict' = Verdict("swapped", 2, 0,
                          [ReturnedClaims EXCEPT ![2].branch = call.ret.proof_consolidation],
                          block_root)
    /\ UNCHANGED <<leaf_chunks, eng, prover, header, call, first, calc, client, app_state, scanner, health_response>>

\* block roots other than the header's
OtherRoots ==
    {ZeroChunk, compute_state_root(prover), flip_bit(block_root),
     hash_tree_root(HeaderChunks([header EXCEPT !.body_root = FillChunk(2)]))}
        \ {block_root}

\* the bundle verified against another block root
VerifyWrongRoot ==
    /\ BundleReturned /\ verdict = NoVerdict
    /\ \E r \in OtherRoots :
          verdict' = Verdict("wrong_root", 0, 0, ReturnedClaims, r)
    /\ UNCHANGED <<leaf_chunks, eng, prover, header, call, first, calc, client, app_state, scanner, health_response>>

Next ==
    \/ ComputeStateRoot
    \/ ProveConsolidationSourceIndex
    \/ ProveValidatorCredentials
    \/ ProveValidatorActivationEpoch
    \/ GenerateFullProofBundle
    \/ VerifyBundle
    \/ VerifyTampered
    \/ VerifySwapped
    \/ VerifyWrongRoot

Spec == Init /\ [][Next]_vars

\* the calls of the prover alone, one per behaviour
NextCalls ==
    \/ ComputeStateRoot
    \/ ProveConsolidationSourceIndex
    \/ ProveValidatorCredentials
    \/ ProveValidatorActivationEpoch
    \/ GenerateFullProofBundle

SpecCalls == Init /\ [][NextCalls]_vars

---------------------------------------------------------------------------
(* Specification of a shared prover: any number of calls of one StateProver,
   in any order *)

\* provers with every list full to the bound, consolidation k naming
\* validator k, and a header committing to the state
InitShared ==
    /\ Init
    /\ Len(prover.validators) = MaxValidators
    /\ Len(prover.consolidations) = MaxConsolidations
    /\ \A k \in 1..MaxConsolidations :
          prover.consolidations[k].source_index = FromNat(k - 1)
    /\ header.state_root = compute_state_root(prover)

NextShared ==
    \/ CallComputeStateRoot
    \/ CallProveConsolidationSourceIndex
    \/ CallProveValidatorCredentials
    \/ CallProveValidatorActivationEpoch
    \/ CallGenerateFullProofBundle

SpecShared == InitShared /\ [][NextShared]_vars

---------------------------------------------------------------------------
(* Specification of the constructor: StateProver::new called once, the number
   of field roots handed to it drawn as well *)

FieldRootCounts ==
    {0, BEACON_STATE_FIELD_COUNT - 1, BEACON_STATE_FIELD_COUNT,
     BEACON_STATE_FIELD_COUNT + 1, 2^BEACON_STATE_TREE_DEPTH}

\* the field roots cut or padded to count entries
resize(field_roots, count) ==
    [k \in 1..count |-> IF k <= Len(field_roots) THEN field_roots[k] ELSE ZeroChunk]

InitNew ==
    /\ leaf_chunks = <<>>
    /\ eng = EngNone
    /\ prover = NoProver
    /\ header = NoHeader
    /\ call = NoCall
    /\ first = NoCall
    /\ verdict = NoVerdict
    /\ calc = NoCalc
    /\ ServiceIdle

New ==
    \E d \in DepthPairs : \E n \in 0..MaxValidators : \E cs \in ConsolidationSeqs :
      \E count \in FieldRootCounts :
        LET field_roots ==
                resize(compute_field_roots(ValidatorSeq(n), cs, d[1], d[2]), count)
        IN /\ call = NoCall
           /\ prover' = StateProver_new(field_roots, ValidatorSeq(n), cs, d[1], d[2])
           /\ call' = [op |-> "new", field_roots |-> Len(field_roots),
                       validators |-> n, consolidations |-> Len(cs), depths |-> d]
           /\ UNCHANGED <<leaf_chunks, eng, header, first, verdict, calc, client, app_state, scanner, health_response>>

NextNew == New

SpecNew == InitNew /\ [][NextNew]_vars

---------------------------------------------------------------------------
(* Specification of a prover built from field roots of any content: the    *)
(* roots of the two lists may or may not be those of the lists handed over *)

\* the field roots as computed from the state, with the root of the pending
\* consolidations replaced, the root of the validators replaced by that of
\* the pending consolidations, or the slot replaced
FieldRootsVariants(field_roots) ==
    {field_roots,
     [field_roots EXCEPT ![PENDING_CONSOLIDATIONS_FIELD_INDEX + 1] = FillChunk(9)],
     [field_roots EXCEPT ![VALIDATORS_FIELD_INDEX + 1] =
                             field_roots[PENDING_CONSOLIDATIONS_FIELD_INDEX + 1]],
     [field_roots EXCEPT ![3] = ZeroChunk]}

InitAnyRoots ==
    /\ leaf_chunks = <<>>
    /\ eng = EngNone
    /\ \E d \in DepthPairs : \E n \in 0..MaxValidators : \E cs \in ConsolidationSeqs :
        \E field_roots \in FieldRootsVariants(compute_field_roots(ValidatorSeq(n), cs,
                                                                  d[1], d[2])) :
          prover = StateProver_new(field_roots, ValidatorSeq(n), cs, d[1], d[2])
    /\ header \in IF prover.built
                  THEN {h \in Headers(prover) : h.state_root = compute_state_root(prover)}
                  ELSE {NoHeader}
    /\ call = NoCall
    /\ first = NoCall
    /\ verdict = NoVerdict
    /\ calc = NoCalc
    /\ ServiceIdle

NextAnyRoots ==
    \/ ProveConsolidationSourceIndex
    \/ GenerateFullProofBundle

SpecAnyRoots == InitAnyRoots /\ [][NextAnyRoots]_vars

---------------------------------------------------------------------------
(* Specification of the beacon client: one endpoint call, the answer of    *)
(* the node drawn                                                          *)

\* the hexadecimal string of bytes, with or without the 0x prefix
HexString(bytes, prefix) ==
    (IF prefix THEN <<"0", "x">> ELSE <<>>) \o
    [k \in 1..(2 * Len(bytes)) |->
        IF k % 2 = 1 THEN HexLower[(bytes[(k + 1) \div 2] \div 16) + 1]
        ELSE HexLower[(bytes[k \div 2] % 16) + 1]]

\* 0x0102...: the bytes of test_parse_hex32
CountingBytes(n) == [k \in 1..n |-> 16 * (k \div 10) + (k % 10)]

\* root strings: 32 bytes with and without prefix, 2 bytes, no hex digits
RootStrings ==
    {HexString(CountingBytes(32), TRUE), HexString(CountingBytes(32), FALSE),
     HexString(CountingBytes(2), TRUE), <<"0", "x", "z", "z">>}

GoodRoot == HexString(CountingBytes(32), TRUE)

\* decimal strings: numbers, a sign, nothing, no digit
NumberStrings == {<<"1", "6">>, <<"+", "3">>, <<>>, <<"x">>}

Statuses == {200, NOT_FOUND, 500}

HeaderBody(slot, state_root, body_root) ==
    [shape |-> "header",
     message |-> [slot |-> slot, proposer_index |-> <<"7">>, parent_root |-> GoodRoot,
                  state_root |-> state_root, body_root |-> body_root]]

HeaderBodies ==
    {Garbage} \cup {HeaderBody(slot, state_root, GoodRoot) :
                        slot \in NumberStrings, state_root \in RootStrings}

CheckpointsBody(epoch, root) ==
    [shape |-> "checkpoints",
     data |-> [previous_justified |-> [epoch |-> <<"0">>, root |-> GoodRoot],
               current_justified |-> [epoch |-> <<"1">>, root |-> GoodRoot],
               finalized |-> [epoch |-> epoch, root |-> root]]]

CheckpointsBodies ==
    {Garbage} \cup {CheckpointsBody(epoch, root) :
                        epoch \in NumberStrings, root \in RootStrings}

Entry(source_index, target_index) ==
    [source_index |-> source_index, target_index |-> target_index]

ConsolidationsBody(data) == [shape |-> "consolidations", data |-> data]

ConsolidationsBodies ==
    {Garbage, ConsolidationsBody(<<>>),
     ConsolidationsBody(<<Entry(<<"1">>, <<"5">>)>>),
     ConsolidationsBody(<<Entry(<<"1">>, <<"5">>), Entry(<<"2">>, <<"x">>)>>),
     ConsolidationsBody(<<Entry(<<>>, <<"5">>)>>)}

ValidatorBodies ==
    {Garbage} \cup
    {[shape |-> "validator",
      data |-> [validator |-> [withdrawal_credentials |-> root,
                               activation_epoch |-> epoch]]] :
        root \in RootStrings, epoch \in NumberStrings}

\* SSZ bytes of a state: any bytes are data
StateBodies == {<<>>, <<1, 2, 3>>}

\* what the node can answer with one of the bodies
Answers(bodies) ==
    {NoAnswer} \cup {Answer(status, body) : status \in Statuses, body \in bodies}

Ids == {<<"h", "e", "a", "d">>, <<"1", "6">>}

InitClient ==
    /\ leaf_chunks = <<>>
    /\ eng = EngNone
    /\ prover = NoProver
    /\ header = NoHeader
    /\ call = NoCall
    /\ first = NoCall
    /\ verdict = NoVerdict
    /\ calc = NoCalc
    /\ ServiceIdle

GetStateSsz ==
    \E id \in Ids : \E answer \in Answers(StateBodies) :
        /\ client = NoClient
        /\ client' = [op |-> "get_state_ssz", id |-> id, response |-> answer,
                      ret |-> get_state_ssz(id, answer)]
        /\ UNCHANGED <<leaf_chunks, eng, prover, header, call, first, verdict, calc, app_state, scanner, health_response>>

GetHeader ==
    \E id \in Ids : \E answer \in Answers(HeaderBodies) :
        /\ client = NoClient
        /\ client' = [op |-> "get_header", id |-> id, response |-> answer,
                      ret |-> get_header(id, answer)]
        /\ UNCHANGED <<leaf_chunks, eng, prover, header, call, first, verdict, calc, app_state, scanner, health_response>>

GetFinalityCheckpoints ==
    \E answer \in Answers(CheckpointsBodies) :
        /\ client = NoClient
        /\ client' = [op |-> "get_finality_checkpoints", id |-> <<"h", "e", "a", "d">>,
                      response |-> answer, ret |-> get_finality_checkpoints(answer)]
        /\ UNCHANGED <<leaf_chunks, eng, prover, header, call, first, verdict, calc, app_state, scanner, health_response>>

GetHeadSlot ==
    \E answer \in Answers(HeaderBodies) :
        /\ client = NoClient
        /\ client' = [op |-> "get_head_slot", id |-> <<"h", "e", "a", "d">>,
                      response |-> answer, ret |-> get_head_slot(answer)]
        /\ UNCHANGED <<leaf_chunks, eng, prover, header, call, first, verdict, calc, app_state, scanner, health_response>>

GetPendingConsolidations ==
    \E id \in Ids : \E answer \in Answers(ConsolidationsBodies) :
        /\ client = NoClient
        /\ client' = [op |-> "get_pending_consolidations", id |-> id, response |-> answer,
                      ret |-> get_pending_consolidations(id, answer)]
        /\ UNCHANGED <<leaf_chunks, eng, prover, header, call, first, verdict, calc, app_state, scanner, health_response>>

GetValidatorInfo ==
    \E id \in Ids : \E answer \in Answers(ValidatorBodies) :
        /\ client = NoClient
        /\ client' = [op |-> "get_validator_info", id |-> id, response |-> answer,
                      ret |-> get_validator_info(id, FromNat(7), answer)]
        /\ UNCHANGED <<leaf_chunks, eng, prover, header, call, first, verdict, calc, app_state, scanner, health_response>>

NextClient ==
    \/ GetStateSsz
    \/ GetHeader
    \/ GetFinalityCheckpoints
    \/ GetHeadSlot
    \/ GetPendingConsolidations
    \/ GetValidatorInfo

SpecClient == InitClient /\ [][NextClient]_vars

---------------------------------------------------------------------------
(* Specification of the health report: the slots are set in any order and  *)
(* /health is asked in between                                             *)

\* slots on both sides of the 64-slot threshold, and slots from 2^63 up
Slots ==
    {FromNat(0), FromNat(50), FromNat(100), FromNat(164), FromNat(165), FromNat(200),
     Or({63}, FromNat(100)), Or({63}, FromNat(165)), 0..(WORD_BITS - 1)}

InitHealth ==
    /\ leaf_chunks = <<>>
    /\ eng = EngNone
    /\ prover = NoProver
    /\ header = NoHeader
    /\ call = NoCall
    /\ first = NoCall
    /\ verdict = NoVerdict
    /\ calc = NoCalc
    /\ ServiceIdle

SetHeadSlot ==
    \E slot \in Slots :
        /\ app_state' = set_head_slot(app_state, slot)
        /\ UNCHANGED <<leaf_chunks, eng, prover, header, call, first, verdict, calc, client, scanner, health_response>>

SetCurrentSlot ==
    \E slot \in Slots :
        /\ app_state' = set_current_slot(app_state, slot)
        /\ UNCHANGED <<leaf_chunks, eng, prover, header, call, first, verdict, calc, client, scanner, health_response>>

\* GET /health: the answer, kept with the slots it was given at
Health ==
    /\ health_response' = [asked |-> TRUE, head_slot |-> app_state.head_slot,
                           current_slot |-> app_state.current_slot,
                           answer |-> health(app_state)]
    /\ UNCHANGED <<leaf_chunks, eng, prover, header, call, first, verdict, calc, client, app_state, scanner>>

NextHealth ==
    \/ SetHeadSlot
    \/ SetCurrentSlot
    \/ Health

SpecHealth == InitHealth /\ [][NextHealth]_vars

---------------------------------------------------------------------------
(* Specification of the scanner: polls of the node, whose answers are      *)
(* drawn, and claims updated in between by whoever submits them            *)

HeadAnswers ==
    {NoAnswer, Answer(200, HeaderBody(<<"4", "8">>, GoodRoot, GoodRoot))}

CheckpointsAnswers ==
    {Answer(500, Garbage), Answer(NOT_FOUND, CheckpointsBody(<<"2">>, GoodRoot))}
        \cup {Answer(200, CheckpointsBody(epoch, GoodRoot)) :
                 epoch \in {<<"0">>, <<"1">>, <<"2">>}}

ConsolidationsAnswers ==
    {Answer(500, Garbage), Answer(200, ConsolidationsBody(<<>>)),
     Answer(200, ConsolidationsBody(<<Entry(<<"1">>, <<"5">>)>>)),
     Answer(200, ConsolidationsBody(<<Entry(<<"1">>, <<"6">>), Entry(<<"2">>, <<"5">>),
                                      Entry(<<"2">>, <<"6">>)>>))}

InitScanner ==
    /\ leaf_chunks = <<>>
    /\ eng = EngNone
    /\ prover = NoProver
    /\ header = NoHeader
    /\ call = NoCall
    /\ first = NoCall
    /\ verdict = NoVerdict
    /\ calc = NoCalc
    /\ ServiceIdle

\* one turn of the loop of Scanner::run
Poll ==
    \E head_response \in HeadAnswers : \E checkpoints_response \in CheckpointsAnswers :
      \E consolidations_response \in ConsolidationsAnswers :
      \E polled \in {run_once(scanner.last_finalized_epoch, app_state, head_response,
                              checkpoints_response, consolidations_response)} :
        /\ app_state' = polled.state
        /\ scanner' = [last_finalized_epoch |-> polled.last_finalized_epoch,
                       poll |-> [made |-> TRUE, epoch |-> polled.epoch,
                                 fetched |-> polled.fetched, ret |-> polled.ret]]
        /\ UNCHANGED <<leaf_chunks, eng, prover, header, call, first, verdict, calc, client, health_response>>

\* what a tracked claim becomes once it has been submitted or has failed
ClaimUpdates(record) ==
    {[record EXCEPT !.status = "Submitted", !.tx_hash = Some(<<"0", "x", "a", "b">>)],
     [record EXCEPT !.status = "Failed", !.error = Some(<<"reverted">>)]}

\* AppState::upsert_consolidation called with the update of a tracked record
UpsertConsolidation ==
    \E source_index \in DOMAIN app_state.consolidations :
      \E record \in ClaimUpdates(app_state.consolidations[source_index]) :
        /\ app_state.consolidations[source_index].status = "Detected"
        /\ app_state' = upsert_consolidation(app_state, record)
        /\ UNCHANGED <<leaf_chunks, eng, prover, header, call, first, verdict, calc, client, scanner, health_response>>

NextScanner ==
    \/ Poll
    \/ UpsertConsolidation

SpecScanner == InitScanner /\ [][NextScanner]_vars

---------------------------------------------------------------------------
(* Reference definitions used by the claims on the sparse engine *)

\* leaves[i], or the zero leaf past the populated prefix
LeafOrZero(chunks, index) ==
    IF \E n \in 0..(Len(chunks) - 1) : index = FromNat(n)
    THEN chunks[ToNat(index) + 1]
    ELSE ZeroChunk

ProveReturned == eng.op = "prove" /\ ~eng.ret.panic

\* first leaf slot covered by the sibling at level k of the path of index
SiblingFirstSlot(index, k) == Shl(Xor(Shr(index, k), {0}), k)

---------------------------------------------------------------------------
(* Claims on the sparse engine, under SpecSparse *)

\* C2: for any leaves, depth d and index i < 2^d, the root returned by
\* prove_against_leaf_chunks equals compute_subtree_root(leaves, 0, d); folding
\* leaves[i] (the zero leaf past the populated prefix) up the returned branch by
\* the bits of i gives that root; every other index proved over the same leaves
\* returns the same root.
C2_ProveRootIsSubtreeRoot ==
    ProveReturned =>
        LET tree_root == compute_subtree_root(leaf_chunks, {}, eng.depth, zero_hashes)
        IN /\ eng.ret.root = tree_root
           /\ ProveFold(LeafOrZero(leaf_chunks, eng.index), eng.ret.proof,
                        eng.index, 0, eng.depth) = tree_root
           /\ \A j \in EngIndices(eng.depth) :
                 Lt(j, Shl({0}, eng.depth)) =>
                    prove_against_leaf_chunks(leaf_chunks, j, eng.depth).root
                        = eng.ret.root

C2_Witness ==
    /\ ProveReturned
    /\ eng.depth = 2 /\ eng.index = FromNat(2)
    /\ Len(leaf_chunks) = 3 /\ leaf_chunks[3] # ZeroChunk
    /\ eng.ret.root = compute_subtree_root(leaf_chunks, {}, 2, zero_hashes)

\* C3: the branch returned by prove_against_leaf_chunks has exactly d entries
\* and (leaves[i], branch) is accepted by the generalized-index verifier with
\* gindex 2^d + i against the returned root.
C3_BranchLengthAndVerifies ==
    ProveReturned =>
        /\ Len(eng.ret.proof) = eng.depth
        /\ verify(LeafOrZero(leaf_chunks, eng.index), eng.ret.proof,
                  AddW(Shl({0}, eng.depth), eng.index), eng.ret.root) = "Ok"

C3_Witness ==
    /\ ProveReturned
    /\ eng.depth = BIG_DEPTH /\ eng.index = FromNat(1)
    /\ Len(leaf_chunks) >= 2 /\ leaf_chunks[2] # ZeroChunk
    /\ Len(eng.ret.proof) = BIG_DEPTH
    /\ verify(leaf_chunks[2], eng.ret.proof, AddW(Shl({0}, BIG_DEPTH), {0}),
              eng.ret.root) = "Ok"

\* C4: compute_subtree_root(leaves, start, depth) is the root of the fully
\* materialised balanced tree over the slots [start, start + 2^depth), slot k
\* holding leaves[k] below len(leaves) and the zero leaf otherwise; it is
\* Z[depth] whenever start >= len(leaves).
C4_SparseRootIsFullTreeRoot ==
    eng.op = "subtree" =>
        /\ eng.depth <= MaxDepth =>
              eng.ret = FullTreeRoot(leaf_chunks, ToNat(eng.start), eng.depth)
        /\ ToNat(eng.start) >= Len(leaf_chunks) =>
              eng.ret = zero_hashes[eng.depth]

C4_Witness ==
    /\ eng.op = "subtree"
    /\ eng.depth = 2 /\ eng.start = FromNat(1) /\ Len(leaf_chunks) = 3
    /\ leaf_chunks[2] # ZeroChunk /\ leaf_chunks[3] # ZeroChunk
    /\ eng.ret = hash_pair(hash_pair(leaf_chunks[2], leaf_chunks[3]),
                           zero_hashes[1])

\* C5: in the returned branch, every level k < d whose sibling subtree starts
\* at or past len(leaves) holds the precomputed zero hash Z[k].
C5_EmptySiblingIsZeroHash ==
    ProveReturned =>
        \A k \in 0..(eng.depth - 1) :
            ~Lt(SiblingFirstSlot(eng.index, k), FromNat(Len(leaf_chunks)))
                => eng.ret.proof[k + 1] = zero_hashes[k]

C5_Witness ==
    /\ ProveReturned
    /\ eng.depth = BIG_DEPTH /\ eng.index = {}
    /\ Len(leaf_chunks) = 2 /\ leaf_chunks[2] # ZeroChunk
    /\ eng.ret.proof[1] = leaf_chunks[2]
    /\ \A k \in 1..(BIG_DEPTH - 1) : eng.ret.proof[k + 1] = zero_hashes[k]

---------------------------------------------------------------------------
(* Reference definitions used by the claims on the prover *)

AllOk == [p \in 1..3 |-> "Ok"]

\* the header commits to the state the prover proves against
WellFormedHeader == header.state_root = compute_state_root(prover)

\* field_roots[11] and field_roots[36] are the roots of the prover's lists
ListRootsConsistent ==
    /\ prover.field_roots[VALIDATORS_FIELD_INDEX + 1]
          = compute_list_root(prover.validator_hashes, prover.validators_tree_depth,
                              prover.validator_count)
    /\ prover.field_roots[PENDING_CONSOLIDATIONS_FIELD_INDEX + 1]
          = compute_list_root(prover.consolidation_hashes, prover.consolidations_tree_depth,
                              prover.consolidation_count)

ProverDepths == <<prover.validators_tree_depth, prover.consolidations_tree_depth>>

\* the gindices of the calculator built for the prover's depths, where the
\* repository has one
CalculatorGindices(bundle_) ==
    IF ProverDepths = <<validators_tree_depth, PENDING_CONSOLIDATIONS_DEPTH("gnosis")>>
    THEN << consolidation_source_gindex("gnosis", bundle_.consolidation_index),
            validator_credentials_gindex(bundle_.source_index),
            validator_activation_epoch_gindex(bundle_.source_index) >>
    ELSE IF ProverDepths = <<validators_tree_depth, PENDING_CONSOLIDATIONS_DEPTH("minimal")>>
    THEN << consolidation_source_gindex("minimal", bundle_.consolidation_index),
            validator_credentials_gindex(bundle_.source_index),
            validator_activation_epoch_gindex(bundle_.source_index) >>
    ELSE IF ProverDepths = <<TEST_VALIDATORS_DEPTH, TEST_CONSOLIDATIONS_DEPTH>>
    THEN << test_consolidation_source_gindex(bundle_.consolidation_index),
            test_validator_credentials_gindex(bundle_.source_index),
            test_validator_activation_epoch_gindex(bundle_.source_index) >>
    ELSE [p \in 1..3 |-> ReturnedClaims[p].gindex]

\* the list root and the state of the full-tree prover
FullListRoot(element_hashes, tree_depth, length) ==
    hash_pair(FullTreeRoot(element_hashes, 0, tree_depth),
              ssz_u64_to_bytes32(FromNat(length)))

FullFieldRoots ==
    [prover.field_roots EXCEPT
        ![VALIDATORS_FIELD_INDEX + 1] =
            FullListRoot(prover.validator_hashes, prover.validators_tree_depth,
                         Len(prover.validators)),
        ![PENDING_CONSOLIDATIONS_FIELD_INDEX + 1] =
            FullListRoot(prover.consolidation_hashes, prover.consolidations_tree_depth,
                         Len(prover.consolidations))]

FullStateRoot == FullTreeRoot(FullFieldRoots, 0, BEACON_STATE_TREE_DEPTH)

\* the branch of the full-tree prover for a field of element `index` of a list
FullBranch(container, field_index, element_hashes, index, tree_depth, state_field) ==
    FullTreeBranch(container, field_index, ContainerDepth(Len(container)))
        \o FullTreeBranch(element_hashes, index, tree_depth)
        \o <<ssz_u64_to_bytes32(FromNat(Len(element_hashes)))>>
        \o FullTreeBranch(FullFieldRoots, state_field, BEACON_STATE_TREE_DEPTH)

\* a state of the size the full-tree prover is run on
TestSized == prover.validators_tree_depth <= TEST_VALIDATORS_DEPTH

---------------------------------------------------------------------------
(* Claims on the prover, under Spec *)

\* C1: for a prover whose field_roots[11] and field_roots[36] are the list
\* roots of its validators and consolidations, an in-range consolidation index
\* and a header whose state_root is compute_state_root(), each of the three
\* branches of the bundle verifies against hash_tree_root(header) with the leaf
\* (LE source_index, withdrawal_credentials, LE activation_epoch) and the
\* gindex the calculator of the prover's depths gives for it.
C1_BundleVerifiesAgainstBlockRoot ==
    (verdict.how = "as_returned" /\ WellFormedHeader /\ ListRootsConsistent) =>
        /\ verdict.root = hash_tree_root(HeaderChunks(header))
        /\ verdict.results = AllOk
        /\ verdict.ret.err = "none"
        /\ \A p \in 1..3 : ReturnedClaims[p].gindex = CalculatorGindices(call.ret)[p]

C1_Witness ==
    /\ verdict.how = "as_returned" /\ WellFormedHeader /\ ListRootsConsistent
    /\ ProverDepths = <<40, 18>>
    /\ call.index = 1 /\ call.ret.source_index = FromNat(1)
    /\ verdict.results = AllOk
    /\ ReturnedClaims[2].gindex = validator_credentials_gindex(FromNat(1))

\* C6: for a test-sized state the sparse prover and the full-tree prover agree:
\* compute_state_root() is the state's hash_tree_root, and the leaf and every
\* branch node of prove_consolidation_source_index(i) and
\* prove_validator_credentials(j) are those of the full-tree prover.
C6_SparseAgreesWithFullTree ==
    TestSized =>
        /\ call.op = "compute_state_root" => call.ret = FullStateRoot
        /\ (call.op = "prove_consolidation_source_index" /\ call.ret.err = "none") =>
              LET container == ConsolidationChunks(prover.consolidations[call.index + 1])
              IN /\ call.ret.leaf = container[SOURCE_INDEX_FIELD_INDEX + 1]
                 /\ call.ret.proof =
                       FullBranch(container, SOURCE_INDEX_FIELD_INDEX,
                                  prover.consolidation_hashes, call.index,
                                  prover.consolidations_tree_depth,
                                  PENDING_CONSOLIDATIONS_FIELD_INDEX)
        /\ (call.op = "prove_validator_credentials" /\ call.ret.err = "none") =>
              LET container == ValidatorChunks(prover.validators[call.index + 1])
              IN /\ call.ret.leaf = container[WITHDRAWAL_CREDENTIALS_FIELD_INDEX + 1]
                 /\ call.ret.proof =
                       FullBranch(container, WITHDRAWAL_CREDENTIALS_FIELD_INDEX,
                                  prover.validator_hashes, call.index,
                                  prover.validators_tree_depth,
                                  VALIDATORS_FIELD_INDEX)

C6_Witness ==
    /\ ProverDepths = <<TEST_VALIDATORS_DEPTH, TEST_CONSOLIDATIONS_DEPTH>>
    /\ call.op = "prove_validator_credentials" /\ call.ret.err = "none"
    /\ call.index = 1 /\ Len(prover.validators) = 2
    /\ call.ret.proof[4] = hash_tree_root(ValidatorChunks(prover.validators[1]))
    /\ call.ret.proof[5] = zero_hashes[1]
    /\ Len(call.ret.proof) = 3 + TEST_VALIDATORS_DEPTH + 1 + BEACON_STATE_TREE_DEPTH

\* C7: for a bundle that verifies against the block root, replacing one sibling
\* of one of the three branches, or its leaf, by a different value makes the
\* verification of that proof against the same block root and gindex fail, and
\* verification against any other block root fails for all three.
C7_TamperingIsRejected ==
    (verdict.how \in {"tampered", "wrong_root"}
        /\ VerifyClaims(ReturnedClaims, block_root) = AllOk) =>
        /\ verdict.ret.err # "none"
        /\ verdict.how = "tampered" => verdict.results[verdict.p] # "Ok"
        /\ verdict.how = "wrong_root" => \A p \in 1..3 : verdict.results[p] # "Ok"

C7_Witness ==
    /\ verdict.how = "tampered" /\ verdict.p = 2 /\ verdict.pos = 20
    /\ ProverDepths = <<40, 18>>
    /\ VerifyClaims(ReturnedClaims, block_root) = AllOk
    /\ verdict.results = <<"Ok", "InvalidProof", "Ok">>

C9_BundleBranchLengths ==
    BundleReturned =>
        /\ Len(call.ret.proof_consolidation)
              = 1 + prover.consolidations_tree_depth + 1 + 6 + 3
        /\ Len(call.ret.proof_credentials)
              = 3 + prover.validators_tree_depth + 1 + 6 + 3
        /\ Len(call.ret.proof_activation_epoch) = Len(call.ret.proof_credentials)
        /\ ProverDepths = <<10, 6>> =>
              /\ Len(call.ret.proof_consolidation) = 17
              /\ Len(call.ret.proof_credentials) = 23
        /\ ProverDepths = <<40, 18>> =>
              /\ Len(call.ret.proof_consolidation) = 29
              /\ Len(call.ret.proof_credentials) = 53

C9_Witness ==
    /\ BundleReturned
    /\ ProverDepths = <<40, 18>>
    /\ call.index = 1 /\ Len(prover.consolidations) = 2 /\ Len(prover.validators) = 1
    /\ Len(call.ret.proof_consolidation) = 29
    /\ Len(call.ret.proof_activation_epoch) = 53

\* C10: under the test preset (V_D = 10, C_D = 6) the calculator's expected
\* branch lengths are 17 (consolidation) and 23 (validator), and they are the
\* lengths of the branches a prover of those depths emits.
C10_TestPresetLengths ==
    /\ test_proof_lengths = <<17, 23>>
    /\ (BundleReturned /\ ProverDepths = <<TEST_VALIDATORS_DEPTH, TEST_CONSOLIDATIONS_DEPTH>>) =>
          /\ Len(call.ret.proof_consolidation) = test_consolidation_proof_length
          /\ Len(call.ret.proof_credentials) = test_validator_proof_length
          /\ Len(call.ret.proof_activation_epoch) = test_validator_proof_length

C10_Witness ==
    /\ BundleReturned
    /\ ProverDepths = <<TEST_VALIDATORS_DEPTH, TEST_CONSOLIDATIONS_DEPTH>>
    /\ Len(call.ret.proof_consolidation) = 17
    /\ Len(call.ret.proof_credentials) = 23
    /\ test_consolidation_proof_length = 17 /\ test_validator_proof_length = 23

---------------------------------------------------------------------------
(* Reference definitions used by the claims on the gindex calculator: the
   same arithmetic on integers of unbounded width *)

\* w * 2^d, no bit lost
ShlExact(w, d) == {i + d : i \in w}

\* floor(log2(g)) of a positive g
ExactDepth(g) == MaxOf(g)

\* g1 * 2^depth(g2) + (g2 - 2^depth(g2))
ExactStep(result, gindex) ==
    ShlExact(result, ExactDepth(gindex)) \cup (gindex \ {ExactDepth(gindex)})

RECURSIVE ExactConcat(_, _)
ExactConcat(gindices, n) ==
    IF n = 0 THEN {0} ELSE ExactStep(ExactConcat(gindices, n - 1), gindices[n])

\* no prefix of the path produces a value that does not fit a u64
FitsWord(gindices) ==
    \A n \in 0..Len(gindices) : ExactConcat(gindices, n) \subseteq 0..(WORD_BITS - 1)

\* 2^depth + index computed exactly, for a depth below the width
ExactElementGindex(depth, index) == AddW(ShlExact({0}, depth), index)

---------------------------------------------------------------------------
\* C11: under the production preset (validators 2^40, pending consolidations
\* 2^18) consolidation_proof_length() is the depth of
\* consolidation_source_gindex(0), which is 29, and validator_proof_length()
\* is the depth of validator_credentials_gindex(0), which is 53; the gindices
\* are the exact ones, no step of their computation leaving 64 bits.
C11_ProductionProofLengths ==
    /\ (calc.op = "consolidation_proof_length" /\ calc.feature = "gnosis") =>
          LET path == ConsolidationSourcePath(pending_consolidations_tree_depth("gnosis"), {})
          IN /\ pending_consolidations_tree_depth("gnosis") = 18
             /\ calc.ret = 29
             /\ calc.ret = ExactDepth(consolidation_source_gindex("gnosis", {}))
             /\ FitsWord(path)
             /\ consolidation_source_gindex("gnosis", {}) = ExactConcat(path, Len(path))
    /\ (calc.op = "validator_proof_length" /\ calc.feature = "gnosis") =>
          LET path == ValidatorFieldPath(validators_tree_depth, {},
                                         WITHDRAWAL_CREDENTIALS_FIELD_INDEX)
          IN /\ validators_tree_depth = 40
             /\ calc.ret = 53
             /\ calc.ret = ExactDepth(validator_credentials_gindex({}))
             /\ FitsWord(path)
             /\ validator_credentials_gindex({}) = ExactConcat(path, Len(path))

C11_Witness ==
    /\ calc.op = "consolidation_proof_length"
    /\ calc.feature = "gnosis"
    /\ calc.ret = 29

---------------------------------------------------------------------------
\* the gindex of child number index among the 2^depth nodes depth levels
\* below the node of gindex g
Descend(g, depth, index) == ShlExact(g, depth) \cup index

\* the node reached from the block root through header field 3 (of 8), the
\* state field (of 64), the data root of the list (child 0 of 2), the element
\* (of 2^data_depth) and the field of the element (of 2^field_depth)
NodeGindex(state_field, data_depth, element, field_depth, field) ==
    Descend(Descend(Descend(Descend(Descend({0}, 3, FromNat(3)),
                                    6, FromNat(state_field)),
                            1, {}),
                    data_depth, element),
            field_depth, FromNat(field))

\* an index below the capacity 2^depth
InCapacity(index, depth) == index \subseteq 0..(depth - 1)

\* C12: for every in-capacity index consolidation_source_gindex(i) =
\* concat(11, 100, 2, 2^C_D + i, 2), validator_credentials_gindex(j) =
\* concat(11, 75, 2, 2^V_D + j, 9) and validator_activation_epoch_gindex(j) =
\* concat(11, 75, 2, 2^V_D + j, 13), and each is the gindex of the node
\* reached from the block root by header field 3, state field 36 (resp. 11),
\* the list data root, element i (resp. j) and the target field.
C12_GindexFormulas ==
    /\ (calc.op = "consolidation_source_gindex"
          /\ InCapacity(calc.index, IF calc.feature = "gnosis" THEN 18 ELSE 6)) =>
          LET C_D == IF calc.feature = "gnosis" THEN 18 ELSE 6
              path == <<FromNat(11), FromNat(100), FromNat(2),
                        ExactElementGindex(C_D, calc.index), FromNat(2)>>
          IN /\ calc.ret = ExactConcat(path, 5)
             /\ calc.ret = NodeGindex(36, C_D, calc.index, 1, 0)
             /\ FitsWord(path)
    /\ (calc.op = "validator_credentials_gindex" /\ InCapacity(calc.index, 40)) =>
          LET path == <<FromNat(11), FromNat(75), FromNat(2),
                        ExactElementGindex(40, calc.index), FromNat(9)>>
          IN /\ calc.ret = ExactConcat(path, 5)
             /\ calc.ret = NodeGindex(11, 40, calc.index, 3, 1)
             /\ FitsWord(path)
    /\ (calc.op = "validator_activation_epoch_gindex" /\ InCapacity(calc.index, 40)) =>
          LET path == <<FromNat(11), FromNat(75), FromNat(2),
                        ExactElementGindex(40, calc.index), FromNat(13)>>
          IN /\ calc.ret = ExactConcat(path, 5)
             /\ calc.ret = NodeGindex(11, 40, calc.index, 3, 5)
             /\ FitsWord(path)

\* the gindex of the last element a production list can hold has been asked
C12_Witness ==
    /\ calc.op = "validator_activation_epoch_gindex"
    /\ calc.index = 0..39
    /\ calc.ret = NodeGindex(11, 40, 0..39, 3, 5)
    /\ ExactDepth(calc.ret) = 53

---------------------------------------------------------------------------
\* (g1 << depth(g2)) | (g2 XOR 2^depth(g2)) on 64-bit words
ConcatTwo(g1, g2) ==
    Or(Shl(g1, ExactDepth(g2)), Xor(g2, Shl({0}, ExactDepth(g2))))

\* C13 as stated: concat_gindices([]) = 1, concat_gindices([g]) = g, and for
\* all positive g1, g2 concat_gindices([g1, g2]) = (g1 << depth(g2)) | (g2 XOR
\* 2^depth(g2)) with depth(concat(g1, g2)) = depth(g1) + depth(g2).
C13_ConcatDepthAdditiveAlways ==
    calc.op = "concat_gindices" =>
        /\ Len(calc.gindices) = 0 => calc.ret = {0}
        /\ Len(calc.gindices) = 1 => calc.ret = calc.gindices[1]
        /\ Len(calc.gindices) = 2 =>
              /\ calc.ret = ConcatTwo(calc.gindices[1], calc.gindices[2])
              /\ calc.ret # {}
              /\ ExactDepth(calc.ret)
                    = ExactDepth(calc.gindices[1]) + ExactDepth(calc.gindices[2])

\* C13, amended: concat_gindices([]) = 1, concat_gindices([g]) = g, for all
\* positive g1, g2 concat_gindices([g1, g2]) = (g1 << depth(g2)) | (g2 XOR
\* 2^depth(g2)) on 64-bit words, and whenever depth(g1) + depth(g2) <= 63 the
\* result is g1 * 2^depth(g2) + (g2 - 2^depth(g2)) exactly and its depth is
\* depth(g1) + depth(g2).
C13_ConcatDepthAdditiveWithinWord ==
    calc.op = "concat_gindices" =>
        /\ Len(calc.gindices) = 0 => calc.ret = {0}
        /\ Len(calc.gindices) = 1 => calc.ret = calc.gindices[1]
        /\ Len(calc.gindices) = 2 =>
              LET g1 == calc.gindices[1]
                  g2 == calc.gindices[2]
              IN /\ calc.ret = ConcatTwo(g1, g2)
                 /\ ExactDepth(g1) + ExactDepth(g2) <= WORD_BITS - 1 =>
                       /\ calc.ret = ExactConcat(calc.gindices, 2)
                       /\ ExactDepth(calc.ret) = ExactDepth(g1) + ExactDepth(g2)

\* two gindices whose depths add up to 63 exactly have been concatenated
C13_Witness ==
    /\ calc.op = "concat_gindices"
    /\ calc.gindices = <<Shl({0}, 62), FromNat(3)>>
    /\ calc.ret = {0, 63}

---------------------------------------------------------------------------
(* Claims on the errors and the bundle of the prover *)

\* C14: prove_consolidation_source_index(i) and generate_full_proof_bundle(
\* header, i, ts) return ConsolidationIndexOutOfBounds(i, len(consolidations))
\* for every i >= len(consolidations), the index equal to the length and any
\* index on an empty list included, and nothing but the error is returned.
C14_ConsolidationIndexRejected ==
    (/\ call.op \in {"prove_consolidation_source_index", "generate_full_proof_bundle"}
     /\ call.index >= Len(prover.consolidations))
        => call.ret = [err |-> "ConsolidationIndexOutOfBounds",
                       args |-> <<call.index, Len(prover.consolidations)>>]

\* the slot just past the one populated entry of a list of capacity 2^18 has
\* been asked for
C14_Witness ==
    /\ call.op = "generate_full_proof_bundle"
    /\ prover.consolidations_tree_depth = 18
    /\ Len(prover.consolidations) = 1
    /\ call.index = 1
    /\ call.ret.err = "ConsolidationIndexOutOfBounds"

\* the consolidation asked for is there and names a validator that is not
SourceMissing ==
    /\ call.op = "generate_full_proof_bundle"
    /\ call.index < Len(prover.consolidations)
    /\ ~Lt(prover.consolidations[call.index + 1].source_index,
           FromNat(Len(prover.validators)))

\* C15: when consolidations[i].source_index >= len(validators),
\* generate_full_proof_bundle returns ValidatorIndexOutOfBounds(source_index,
\* len(validators)) and nothing else: the consolidation index is checked
\* first, no branch is computed before the check, and no part of a bundle
\* is returned.
C15_SourceValidatorRejected ==
    /\ SourceMissing =>
          call.ret = [err |-> "ValidatorIndexOutOfBounds",
                      args |-> <<prover.consolidations[call.index + 1].source_index,
                                 Len(prover.validators)>>]
    /\ (call.op = "generate_full_proof_bundle" /\ call.ret.err = "ValidatorIndexOutOfBounds")
          => SourceMissing

\* the missing validator is named by an entry whose branch the engine would
\* refuse to compute (index 1 of a tree of one leaf)
C15_Witness ==
    /\ SourceMissing
    /\ prover.consolidations_tree_depth = 0
    /\ call.index = 1
    /\ prove_consolidation_source_index(prover, 1) = Panicked
    /\ call.ret.err = "ValidatorIndexOutOfBounds"

\* C16 as stated: constructing a StateProver with len(field_roots) # 37 fails
\* with the error kind FieldRootCountMismatch(got, expected = 37) and yields
\* no prover; with exactly 37 field roots construction succeeds.
C16_FieldRootCountMismatch ==
    call.op = "new" =>
        IF call.field_roots # 37
        THEN /\ ~prover.built
             /\ prover.err = "FieldRootCountMismatch"
        ELSE prover.built /\ prover.err = "none"

\* C16, amended: constructing a StateProver with len(field_roots) # 37 fails
\* with the error kind ProofGenerationFailed, whose message names the
\* expected count 37 and the count got, and yields no prover; with exactly
\* 37 field roots construction succeeds.
C16_FieldRootCountRefused ==
    call.op = "new" =>
        IF call.field_roots # 37
        THEN prover = [err |-> "ProofGenerationFailed", built |-> FALSE,
                       what |-> <<"Expected {} field roots, got {}", 37, call.field_roots>>]
        ELSE /\ prover.built /\ prover.err = "none"
             /\ Len(prover.field_roots) = 37
             /\ Len(prover.validators) = call.validators
             /\ Len(prover.consolidations) = call.consolidations
             /\ ProverDepths = call.depths

\* one field root too many has been handed to the constructor
C16_Witness ==
    /\ call.op = "new"
    /\ call.field_roots = 38
    /\ ~prover.built
    /\ prover.err = "ProofGenerationFailed"

\* the validator the returned bundle is about
BundleSource == ToNat(prover.consolidations[call.index + 1].source_index)

\* branch is the branch of field number field of validator number j: its
\* first three entries are the siblings of the field in the validator's
\* container, and the entries above them lead from the validator's root to
\* the data root of the validators list along the bits of j
BranchOfValidator(branch, j, field) ==
    LET v == prover.validators[j + 1]
        V_D == prover.validators_tree_depth
    IN /\ SubSeq(branch, 1, 3) = FullTreeBranch(ValidatorChunks(v), field, 3)
       /\ ProveFold(hash_tree_root(ValidatorChunks(v)), SubSeq(branch, 4, 3 + V_D),
                    FromNat(j), 0, V_D)
             = prove_against_leaf_chunks(prover.validator_hashes, {}, V_D).root

\* C17: every bundle returned by generate_full_proof_bundle(header, i, ts)
\* has beacon_timestamp = ts, consolidation_index = i, source_index =
\* consolidations[i].source_index, activation_epoch and source_credentials
\* those of validators[source_index], and its credentials and
\* activation-epoch branches are both branches of validator source_index.
C17_BundleFields ==
    BundleReturned =>
        /\ call.ret.beacon_timestamp = call.ts
        /\ ToNat(call.ret.consolidation_index) = call.index
        /\ call.ret.source_index = prover.consolidations[call.index + 1].source_index
        /\ call.ret.activation_epoch = prover.validators[BundleSource + 1].activation_epoch
        /\ call.ret.source_credentials
              = prover.validators[BundleSource + 1].withdrawal_credentials
        /\ BranchOfValidator(call.ret.proof_credentials, BundleSource,
                             WITHDRAWAL_CREDENTIALS_FIELD_INDEX)
        /\ BranchOfValidator(call.ret.proof_activation_epoch, BundleSource,
                             ACTIVATION_EPOCH_FIELD_INDEX)

\* a bundle for the second consolidation, whose source is the second of two
\* validators, has been returned
C17_Witness ==
    /\ BundleReturned
    /\ call.index = 1
    /\ BundleSource = 1
    /\ Len(prover.validators) = 2
    /\ call.ts = Or(Shl({0}, 30), FromNat(160826066))
    /\ call.ret.activation_epoch = FromNat(101)
    /\ call.ret.source_credentials[CHUNK_BYTES] = 1

\* the error kinds of ProofError
ProofErrorKinds ==
    {"ConsolidationIndexOutOfBounds", "ValidatorIndexOutOfBounds", "SszError",
     "ProofGenerationFailed", "MerkleizationError"}

\* C18: for every StateProver accepted by StateProver::new and every
\* consolidation index, generate_full_proof_bundle ends by returning either a
\* complete bundle or a structured ProofError; it never aborts, also when the
\* number of populated validators or consolidations exceeds 2^capacity_depth.
C18_BundleNeverAborts ==
    (prover.built /\ call.op = "generate_full_proof_bundle") =>
        /\ call.ret # Panicked
        /\ call.ret.err \in ProofErrorKinds \cup {"none"}
        /\ call.ret.err = "none" =>
              DOMAIN call.ret =
                 {"err", "beacon_timestamp", "consolidation_index", "source_index",
                  "activation_epoch", "source_credentials", "proof_consolidation",
                  "proof_credentials", "proof_activation_epoch"}

---------------------------------------------------------------------------
\* the same method called with the same arguments
SameRequest(a, b) == [a EXCEPT !.ret = 0] = [b EXCEPT !.ret = 0]

---------------------------------------------------------------------------
\* C20: for every depth d <= 40 and every index i < 2^d, every read of the
\* zero-hash table made by prove_against_leaf_chunks and compute_subtree_root
\* is at an index within the table Z[0..64], where Z[0] is the all-zero
\* chunk and Z[k] = hash_pair(Z[k-1], Z[k-1]); the recursion in
\* compute_subtree_root never goes deeper than d.
C20_ZeroHashReadsInTable ==
    eng.op = "prove_reads" =>
        /\ eng.depth <= 40
        /\ \A k \in eng.reads : ZhIndexOk(k) /\ k < eng.depth
        /\ eng.recursion <= eng.depth
        /\ DOMAIN zero_hashes = 0..64
        /\ zero_hashes[0] = ZeroChunk
        /\ \A k \in 1..64 : zero_hashes[k] = hash_pair(zero_hashes[k - 1], zero_hashes[k - 1])
        /\ \A k \in 0..MaxDepth : zero_hashes[k] = FullTreeRoot(<<>>, 0, k)

\* a proof at the capacity depth of the validators over populated leaves has
\* read the table at its highest level
C20_Witness ==
    /\ eng.op = "prove_reads"
    /\ eng.depth = 40
    /\ Len(leaf_chunks) = MaxLeaves
    /\ 39 \in eng.reads
    /\ eng.recursion >= 2

---------------------------------------------------------------------------
(* Claims on the list and container proofs of the engine *)

\* length as a little-endian u64 in bytes 0..8 of a zero-filled chunk, for a
\* length below 2^16
LengthChunk(length) ==
    <<"c", [k \in 1..32 |-> IF k = 1 THEN length % 256
                            ELSE IF k = 2 THEN length \div 256
                            ELSE 0]>>

\* C21: prove_list_element(element_hashes, i, D, length) returns a branch of
\* length D + 1 whose first D entries are the data-tree branch of element i
\* and whose last entry is the length, little-endian in bytes 0..8 of a
\* zero-filled chunk; the root is hash_pair(data_root, length_chunk), which is
\* compute_list_root(element_hashes, D, length).
C21_ListElementBranch ==
    (eng.op = "prove_list_element" /\ ~eng.ret.panic) =>
        LET D == eng.depth
            data_root == compute_subtree_root(leaf_chunks, {}, D, zero_hashes)
        IN /\ Len(eng.ret.proof) = D + 1
           /\ \A k \in 1..D :
                 eng.ret.proof[k] = compute_subtree_root(leaf_chunks,
                                        SiblingFirstSlot(eng.index, k - 1), k - 1, zero_hashes)
           /\ D <= MaxDepth =>
                 SubSeq(eng.ret.proof, 1, D) = FullTreeBranch(leaf_chunks, ToNat(eng.index), D)
           /\ eng.ret.proof[D + 1] = LengthChunk(eng.length)
           /\ eng.ret.root = hash_pair(data_root, LengthChunk(eng.length))
           /\ eng.ret.root = compute_list_root(leaf_chunks, D, eng.length)

\* the second of three elements of a list of capacity 4 and stated length 258
C21_Witness ==
    /\ eng.op = "prove_list_element" /\ ~eng.ret.panic
    /\ eng.depth = 2 /\ eng.index = {0} /\ eng.length = 258
    /\ Len(leaf_chunks) = 3
    /\ eng.ret.proof[3][2][1] = 2 /\ eng.ret.proof[3][2][2] = 1

\* C22: for any element hashes, capacity depth D and length,
\* compute_list_root(element_hashes, D, length) = hash_pair(subtree_root(
\* element_hashes, 0, D), length_chunk(length)); for an empty list the data
\* root is Z[D], so the list root is hash_pair(Z[D], length_chunk(0)).
C22_ListRoot ==
    eng.op = "compute_list_root" =>
        LET D == eng.depth
        IN /\ eng.ret = hash_pair(compute_subtree_root(leaf_chunks, {}, D, zero_hashes),
                                  LengthChunk(eng.length))
           /\ D <= MaxDepth =>
                 eng.ret = hash_pair(FullTreeRoot(leaf_chunks, 0, D), LengthChunk(eng.length))
           /\ (leaf_chunks = <<>> /\ eng.length = 0) =>
                 eng.ret = hash_pair(zero_hashes[D], LengthChunk(0))

\* the root of an empty list of capacity 2^20 has been computed
C22_Witness ==
    /\ eng.op = "compute_list_root"
    /\ leaf_chunks = <<>> /\ eng.length = 0 /\ eng.depth = BIG_DEPTH
    /\ eng.ret = <<"h", <<"z", 20>>, ZeroChunk>>

\* the least d with 2^d >= n, for n >= 1
CeilLog2(n) == CHOOSE d \in 0..16 : 2^d >= n /\ (d = 0 \/ 2^(d - 1) < n)

\* C23: prove_container_field(field_hashes, k, n) proves field k in a tree of
\* depth ceil(log2(n)), the fields padded with zero leaves to the next power
\* of two, and returns a branch of that length; for n <= 1 the depth is 0,
\* the branch is empty and the root is the single field hash itself.
C23_ContainerFieldBranch ==
    (eng.op = "prove_container_field" /\ ~eng.ret.panic) =>
        LET n == eng.num_fields
            d == IF n <= 1 THEN 0 ELSE CeilLog2(n)
        IN /\ Len(eng.ret.proof) = d
           /\ eng.ret.proof = FullTreeBranch(leaf_chunks, eng.index, d)
           /\ eng.ret.root = FullTreeRoot(leaf_chunks, 0, d)
           /\ n <= 1 =>
                 /\ eng.ret.proof = <<>>
                 /\ eng.ret.root = IF leaf_chunks = <<>> THEN ZeroChunk ELSE leaf_chunks[1]

\* the last of three fields has been proved in a tree of four leaves
C23_Witness ==
    /\ eng.op = "prove_container_field" /\ ~eng.ret.panic
    /\ eng.num_fields = 3 /\ Len(leaf_chunks) = 3 /\ eng.index = 2
    /\ Len(eng.ret.proof) = 2
    /\ eng.ret.proof[1] = ZeroChunk


---------------------------------------------------------------------------
(* C24: error classes of the beacon client *)

NotFoundKinds == {"StateNotFound", "HeaderNotFound"}

\* C24: whatever the endpoint, an answer with status 404 yields a not-found
\* error, an answer with any other status outside 2xx yields an error that is
\* no not-found error, a 2xx answer that fails does so with InvalidResponse
\* (its body is all that can be wrong), and no answer outside 2xx is returned
\* as data.
C24_UniformErrorClasses ==
    (client.op # "none" /\ client.response.sent) =>
        LET status == client.response.status
            ret == client.ret
        IN /\ status = NOT_FOUND => (~ret.ok /\ ret.err \in NotFoundKinds)
           /\ (~is_success(status) /\ status # NOT_FOUND) =>
                  (~ret.ok /\ ret.err \notin NotFoundKinds)
           /\ (is_success(status) /\ ~ret.ok) => ret.err = "InvalidResponse"
           /\ ~is_success(status) => ~ret.ok


---------------------------------------------------------------------------
(* C25: slots behind and the health report *)

\* d = max(head - current, 0), told without subtracting
IsSlotsBehind(d, head, current) ==
    IF Lt(head, current) THEN d = {} ELSE AddW(current, d) = head

\* d <= 64
AtMost64(d) == d = {6} \/ d \subseteq 0..5

\* C25: whatever slots were set, slots_behind() is max(head_slot -
\* current_slot, 0) and is_healthy() holds exactly when that is at most 64;
\* /health answers 200 "healthy" when it is and 503 "degraded" when it is
\* not, and reports the slots_behind of the slots it was asked at.
C25_HealthReport ==
    /\ IsSlotsBehind(slots_behind(app_state), app_state.head_slot, app_state.current_slot)
    /\ is_healthy(app_state) <=> AtMost64(slots_behind(app_state))
    /\ health_response.asked =>
          LET answer == health_response.answer
          IN /\ IsSlotsBehind(answer.slots_behind, health_response.head_slot,
                              health_response.current_slot)
             /\ AtMost64(answer.slots_behind) =>
                    (answer.status_code = 200 /\ answer.status = "healthy")
             /\ ~AtMost64(answer.slots_behind) =>
                    (answer.status_code = 503 /\ answer.status = "degraded")

\* /health asked 65 slots behind a head above 2^63: 503 and degraded
C25_Witness ==
    /\ health_response.asked
    /\ health_response.head_slot = Or({63}, FromNat(165))
    /\ health_response.current_slot = Or({63}, FromNat(100))
    /\ health_response.answer.slots_behind = FromNat(65)
    /\ health_response.answer.status_code = 503
    /\ app_state.head_slot = FromNat(100)
    /\ app_state.current_slot = FromNat(200)
    /\ slots_behind(app_state) = {}


---------------------------------------------------------------------------
(* C26: the order of the entries of a branch *)

\* branch is made, in this order, of the inner siblings of the field in its
\* container, the D siblings of element i in the data tree of the list, the
\* chunk of the populated count, the 6 siblings of the list's field in the
\* state container and the 3 siblings of state_root in the header
OrderedBranch(branch, inner, container, field, hashes, i, D, count, state_field) ==
    /\ Len(branch) = inner + D + 1 + 6 + 3
    /\ SubSeq(branch, 1, inner) = FullTreeBranch(container, field, inner)
    /\ \A k \in 1..D :
          branch[inner + k] =
              compute_subtree_root(hashes, SiblingFirstSlot(FromNat(i), k - 1), k - 1,
                                   zero_hashes)
    /\ branch[inner + D + 1] = LengthChunk(count)
    /\ SubSeq(branch, inner + D + 2, inner + D + 7)
          = FullTreeBranch(prover.field_roots, state_field, 6)
    /\ SubSeq(branch, inner + D + 8, inner + D + 10)
          = FullTreeBranch(HeaderChunks(header), 3, 3)

LastThree(branch) == SubSeq(branch, Len(branch) - 2, Len(branch))

\* C26: every branch of a returned bundle runs leaf-to-root: the siblings in
\* the element container (1 for a PendingConsolidation, 3 for a Validator),
\* the C_D or V_D data-tree siblings, the chunk of the populated count
\* (little-endian), the 6 state-container siblings of field 36 or 11, and the
\* 3 header siblings of state_root; the last 3 entries of the three branches
\* are the same.
C26_BranchOrder ==
    BundleReturned =>
        LET consolidation == prover.consolidations[call.index + 1]
            validator == prover.validators[BundleSource + 1]
        IN /\ OrderedBranch(call.ret.proof_consolidation, 1,
                            ConsolidationChunks(consolidation), 0,
                            prover.consolidation_hashes, call.index,
                            prover.consolidations_tree_depth,
                            Len(prover.consolidations), 36)
           /\ OrderedBranch(call.ret.proof_credentials, 3,
                            ValidatorChunks(validator), 1,
                            prover.validator_hashes, BundleSource,
                            prover.validators_tree_depth,
                            Len(prover.validators), 11)
           /\ OrderedBranch(call.ret.proof_activation_epoch, 3,
                            ValidatorChunks(validator), 5,
                            prover.validator_hashes, BundleSource,
                            prover.validators_tree_depth,
                            Len(prover.validators), 11)
           /\ LastThree(call.ret.proof_consolidation) = LastThree(call.ret.proof_credentials)
           /\ LastThree(call.ret.proof_credentials) = LastThree(call.ret.proof_activation_epoch)

\* a bundle of a prover of depths (40, 18) with two validators and two
\* consolidations: the count chunks sit at entries 20 and 44
C26_Witness ==
    /\ BundleReturned
    /\ ProverDepths = <<40, 18>>
    /\ Len(prover.validators) = 2 /\ Len(prover.consolidations) = 2
    /\ call.index = 1
    /\ call.ret.proof_consolidation[20] = LengthChunk(2)
    /\ call.ret.proof_credentials[44] = LengthChunk(2)
    /\ Len(call.ret.proof_activation_epoch) = 53


---------------------------------------------------------------------------
(* C27: gindices of distinct elements *)

\* the indices below the capacity 2^depth the calculator is asked for
CapacityIndices(depth) == {j \in CalcIndices(depth) : InCapacity(j, depth)}

\* C27: two distinct in-capacity indices get distinct gindices, and the gindex
\* of every in-capacity index has the same depth, which is
\* consolidation_proof_length() resp. validator_proof_length().
C27_DistinctGindicesOneDepth ==
    /\ (calc.op = "consolidation_source_gindex"
          /\ InCapacity(calc.index, pending_consolidations_tree_depth(calc.feature))) =>
          /\ \A j \in CapacityIndices(pending_consolidations_tree_depth(calc.feature)) :
                j # calc.index => consolidation_source_gindex(calc.feature, j) # calc.ret
          /\ ExactDepth(calc.ret) = consolidation_proof_length(calc.feature)
          /\ gindex_depth(calc.ret) = consolidation_proof_length(calc.feature)
    /\ (calc.op = "validator_credentials_gindex" /\ InCapacity(calc.index, 40)) =>
          /\ \A j \in CapacityIndices(40) :
                j # calc.index => validator_credentials_gindex(j) # calc.ret
          /\ ExactDepth(calc.ret) = validator_proof_length
          /\ gindex_depth(calc.ret) = validator_proof_length
    /\ (calc.op = "validator_activation_epoch_gindex" /\ InCapacity(calc.index, 40)) =>
          /\ \A j \in CapacityIndices(40) :
                j # calc.index => validator_activation_epoch_gindex(j) # calc.ret
          /\ \A j \in CapacityIndices(40) : validator_credentials_gindex(j) # calc.ret
          /\ ExactDepth(calc.ret) = validator_proof_length
          /\ gindex_depth(calc.ret) = validator_proof_length

\* the gindex of the last pending consolidation a production list can hold
C27_Witness ==
    /\ calc.op = "consolidation_source_gindex"
    /\ calc.feature = "gnosis"
    /\ calc.index = 0..17
    /\ consolidation_source_gindex("gnosis", {}) # calc.ret
    /\ ExactDepth(calc.ret) = 29
    /\ ExactDepth(consolidation_source_gindex("gnosis", {})) = 29


---------------------------------------------------------------------------
(* C28, C29: the polls of the scanner *)

\* C28: from one poll to the next last_finalized_epoch never decreases; a poll
\* fetches the pending consolidations exactly when the node reported a
\* finalized epoch above last_finalized_epoch; last_finalized_epoch changes
\* only in a poll whose fetch succeeded, to the epoch reported, and stays
\* when the fetch failed, so that the epoch is fetched again by a later poll
\* and no epoch is processed twice.
C28_EpochProcessedOnce ==
    [][/\ ~Lt(scanner'.last_finalized_epoch, scanner.last_finalized_epoch)
       /\ scanner' # scanner =>
             LET poll == scanner'.poll
             IN /\ poll.fetched <=>
                      (poll.epoch.some /\ Lt(scanner.last_finalized_epoch, poll.epoch.value))
                /\ (poll.fetched /\ poll.ret.ok) =>
                      scanner'.last_finalized_epoch = poll.epoch.value
                /\ ~(poll.fetched /\ poll.ret.ok) =>
                      scanner'.last_finalized_epoch = scanner.last_finalized_epoch]_vars

\* epoch 1 has been processed, and the fetch made for epoch 2 has failed
C28_Witness ==
    /\ scanner.poll.made
    /\ scanner.poll.fetched
    /\ ~scanner.poll.ret.ok
    /\ scanner.poll.epoch = Some(FromNat(2))
    /\ scanner.last_finalized_epoch = FromNat(1)
    /\ app_state.current_epoch = FromNat(2)
    /\ app_state.last_error.some

\* C29: a poll leaves every tracked record as it is (target_index, epoch_seen,
\* status, tx_hash and error), and a record it adds is that of a source index
\* not tracked before, with status Detected, no tx_hash, no error and the
\* epoch of the poll.
C29_TrackedRecordsKept ==
    [][Poll =>
         /\ \A source_index \in DOMAIN app_state.consolidations :
               /\ source_index \in DOMAIN app_state'.consolidations
               /\ app_state'.consolidations[source_index]
                     = app_state.consolidations[source_index]
         /\ \A source_index \in (DOMAIN app_state'.consolidations)
                                   \ (DOMAIN app_state.consolidations) :
               LET record == app_state'.consolidations[source_index]
               IN /\ record.source_index = source_index
                  /\ record.status = "Detected"
                  /\ record.tx_hash = None
                  /\ record.error = None
                  /\ record.epoch_seen = scanner'.last_finalized_epoch]_vars

\* source 1, seen at epoch 1 with target 5 and submitted since, has been
\* listed again at epoch 2 with target 6, along with source 2
C29_Witness ==
    /\ DOMAIN app_state.consolidations = {FromNat(1), FromNat(2)}
    /\ app_state.consolidations[FromNat(1)].status = "Submitted"
    /\ app_state.consolidations[FromNat(1)].tx_hash.some
    /\ app_state.consolidations[FromNat(1)].target_index = FromNat(5)
    /\ app_state.consolidations[FromNat(1)].epoch_seen = FromNat(1)
    /\ app_state.consolidations[FromNat(2)].epoch_seen = FromNat(2)
    /\ app_state.consolidations[FromNat(2)].target_index = FromNat(5)
    /\ scanner.last_finalized_epoch = FromNat(2)


---------------------------------------------------------------------------
(* C30: field roots of any content *)

\* the prover with the field roots its lists give
WithListRoots(self) ==
    [self EXCEPT !.field_roots =
        compute_field_roots(self.validators, self.consolidations,
                            self.validators_tree_depth, self.consolidations_tree_depth)]

\* the bits of the way from a field of element `element` of a list up to the
\* state root: the field in its container, the element in the data tree, the
\* data root as left child of the list root, the list in the state container
StatePathBits(inner, field, D, element, state_field) ==
    FromNat(field) \cup Shl(FromNat(element), inner) \cup Shl(FromNat(state_field), inner + D + 1)

\* leaf folded up the branch without its 3 header siblings gives the state root
FoldsToStateRoot(leaf, branch, bits) ==
    ProveFold(leaf, branch, bits, 0, Len(branch) - 3) = compute_state_root(prover)

ConsolidationsRootInPlace ==
    prover.field_roots[PENDING_CONSOLIDATIONS_FIELD_INDEX + 1]
        = compute_list_root(prover.consolidation_hashes, prover.consolidations_tree_depth,
                            prover.consolidation_count)

ValidatorsRootInPlace ==
    prover.field_roots[VALIDATORS_FIELD_INDEX + 1]
        = compute_list_root(prover.validator_hashes, prover.validators_tree_depth,
                            prover.validator_count)

\* C30: StateProver::new accepts 37 field roots whatever they are and keeps
\* them as given; generate_full_proof_bundle returns Ok on such a prover
\* whenever it does with the roots of the lists in place; the consolidation
\* branch returned folds to compute_state_root() exactly when field_roots[36]
\* is the root of the consolidations list, and the two validator branches
\* exactly when field_roots[11] is the root of the validators list.
C30_FieldRootContentUnchecked ==
    /\ prover.built
    /\ Len(prover.field_roots) = BEACON_STATE_FIELD_COUNT
    /\ call.op = "generate_full_proof_bundle" =>
          /\ call.ret.err
                = generate_full_proof_bundle(WithListRoots(prover), header, call.index,
                                             call.ts).err
          /\ call.ret.err = "none" =>
                /\ FoldsToStateRoot(ssz_u64_to_bytes32(call.ret.source_index),
                                    call.ret.proof_consolidation,
                                    StatePathBits(1, 0, prover.consolidations_tree_depth,
                                                  call.index, 36))
                      <=> ConsolidationsRootInPlace
                /\ FoldsToStateRoot(<<"c", call.ret.source_credentials>>,
                                    call.ret.proof_credentials,
                                    StatePathBits(3, 1, prover.validators_tree_depth,
                                                  BundleSource, 11))
                      <=> ValidatorsRootInPlace
                /\ FoldsToStateRoot(ssz_u64_to_bytes32(call.ret.activation_epoch),
                                    call.ret.proof_activation_epoch,
                                    StatePathBits(3, 5, prover.validators_tree_depth,
                                                  BundleSource, 11))
                      <=> ValidatorsRootInPlace

\* a bundle returned by a prover whose field_roots[36] is not the root of its
\* two pending consolidations: the validator branches fold to the state
\* root, the consolidation branch does not
C30_Witness ==
    /\ BundleReturned
    /\ prover.field_roots[PENDING_CONSOLIDATIONS_FIELD_INDEX + 1] = FillChunk(9)
    /\ ~ConsolidationsRootInPlace
    /\ ValidatorsRootInPlace
    /\ Len(prover.consolidations) = 2
    /\ ProverDepths = <<40, 18>>
    /\ FoldsToStateRoot(<<"c", call.ret.source_credentials>>, call.ret.proof_credentials,
                        StatePathBits(3, 1, 40, BundleSource, 11))
    /\ ~FoldsToStateRoot(ssz_u64_to_bytes32(call.ret.source_index),
                         call.ret.proof_consolidation,
                         StatePathBits(1, 0, 18, call.index, 36))

=============================================================================
